---- MODULE Spec2Model ----
(***************************************************************************)
(* Model of the virtual shell: Terminal session, Register, the built-in    *)
(* commands (cd, ls, rm, head, tac, wc, sc), the Script and Interactive    *)
(* runners and the bootstrap, over the in-memory FileSystem.               *)
(*                                                                         *)
(* Text is a sequence of strings.  Text that the program parses (lines,    *)
(* paths, names, file contents) is a sequence of one-character strings;    *)
(* fixed message literals are kept as one chunk.                           *)
(***************************************************************************)
EXTENDS Integers, Sequences, FiniteSets, TLC

(* ---------------------------------------------------------------- bounds *)
\* FileSystem objects that one run may create (the bootstrap's one included)
MaxFs == 3

(* ------------------------------------------------------------ text tools *)
\* a value under a local name: With(v, LAMBDA x : e) is e with v for x
With(v, F(_)) == F(v)

WS == {" ", "\t", "\n"}

RECURSIVE SplitOn(_, _)
\* str.split(sep) for a one-character separator set: empty segments are kept
SplitOn(s, seps) ==
  IF s = <<>> THEN << <<>> >>
  ELSE LET r == SplitOn(Tail(s), seps) IN
       IF Head(s) \in seps THEN << <<>> >> \o r
       ELSE << <<Head(s)>> \o Head(r) >> \o Tail(r)

NonEmpty(p) == p # <<>>

\* [p for p in path.split("/") if p]
PathParts(path) == SelectSeq(SplitOn(path, {"/"}), NonEmpty)

\* str.split() with no argument: runs of whitespace separate, no empty token
SplitWs(s) == SelectSeq(SplitOn(s, WS), NonEmpty)

RECURSIVE LStrip(_)
LStrip(s) == IF s # <<>> /\ Head(s) \in WS THEN LStrip(Tail(s)) ELSE s

RECURSIVE RStrip(_)
RStrip(s) ==
  IF s # <<>> /\ s[Len(s)] \in WS THEN RStrip(SubSeq(s, 1, Len(s) - 1)) ELSE s

\* str.strip()
Strip(s) == RStrip(LStrip(s))

\* str.startswith(c) for a one-character prefix
StartsWith(s, c) == s # <<>> /\ Head(s) = c

RECURSIVE Join(_, _)
\* sep.join(parts)
Join(parts, sep) ==
  IF parts = <<>> THEN <<>>
  ELSE IF Len(parts) = 1 THEN parts[1]
  ELSE parts[1] \o <<sep>> \o Join(Tail(parts), sep)

\* a command line written as its tokens separated by single blanks
Words(toks) == Join(toks, " ")

(* ------------------------------------------------------- exceptions, None *)
\* An exception: its Python class, its str() and its `message` attribute
\* (<<>> for the classes that have none).  NoErr stands for "nothing raised".
NoErr == [cls |-> "none", text |-> <<>>, message |-> <<>>]

Exc(cls, text) == [cls |-> cls, text |-> text, message |-> <<>>]

None == 0

(* ------------------------------------------------- filesystem object model *)
\* A FileSystem's objects live in fs.nodes, a sequence indexed by object
\* identity; parent is None or the identity of a Directory; children is the
\* insertion-ordered name -> object mapping of a Directory.
NewDirectory(name, parent) ==
  [kind |-> "dir", name |-> name, parent |-> parent, children |-> <<>>,
   content |-> <<>>]

NewFile(name, content, parent) ==
  [kind |-> "file", name |-> name, parent |-> parent, children |-> <<>>,
   content |-> content]

IsDirectory(nodes, id) == id # None /\ nodes[id].kind = "dir"

\* Directory.__len__
DirLen(nodes, id) == Len(nodes[id].children)

\* truth value of `obj` in `if obj:` : None is false, a Directory is false
\* when it has no children (it defines __len__), a File is always true
Truthy(nodes, id) ==
  /\ id # None
  /\ (nodes[id].kind = "dir" => DirLen(nodes, id) > 0)

\* Directory.__contains__
Contains(nodes, d, name) ==
  \E i \in 1..Len(nodes[d].children) : nodes[d].children[i].key = name

\* Directory.children[name]
ChildAt(nodes, d, name) ==
  LET i == CHOOSE j \in 1..Len(nodes[d].children) :
                nodes[d].children[j].key = name
  IN nodes[d].children[i].id

\* del directory.children[name]
DelKey(ch, name) == SelectSeq(ch, LAMBDA e : e.key # name)

\* directory.children[name] = obj  (a new key goes last, an old key keeps
\* its position)
SetKey(ch, name, id) ==
  IF \E i \in 1..Len(ch) : ch[i].key = name
  THEN [i \in 1..Len(ch) |->
          IF ch[i].key = name THEN [key |-> name, id |-> id] ELSE ch[i]]
  ELSE Append(ch, [key |-> name, id |-> id])

\* Directory.add_child
add_child(nodes, d, c) ==
  IF Contains(nodes, d, nodes[c].name)
  THEN [nodes |-> nodes,
        err |-> Exc("FileExistsError",
                    <<"Child with name '">> \o nodes[c].name
                    \o <<"' already exists in directory '">>
                    \o nodes[d].name \o <<"'">>)]
  ELSE
    LET op == nodes[c].parent
        n1 == IF Truthy(nodes, op) /\ Contains(nodes, op, nodes[c].name)
              THEN [nodes EXCEPT ![op].children =
                        DelKey(nodes[op].children, nodes[c].name)]
              ELSE nodes
        n2 == [n1 EXCEPT ![d].children =
                   SetKey(n1[d].children, nodes[c].name, c),
                         ![c].parent = d]
    IN [nodes |-> n2, err |-> NoErr]

RECURSIVE get_absolute_path(_, _)
\* FileSystemObject.get_absolute_path
get_absolute_path(nodes, id) ==
  IF nodes[id].parent = None
  THEN IF nodes[id].name # <<"/">> THEN <<"/">> \o nodes[id].name ELSE <<"/">>
  ELSE LET parent_path == get_absolute_path(nodes, nodes[id].parent) IN
       IF parent_path = <<"/">> THEN <<"/">> \o nodes[id].name
       ELSE parent_path \o <<"/">> \o nodes[id].name

RECURSIVE ChainEnds(_, _, _)
\* the parent references that start at `id` end at None within `fuel` steps
ChainEnds(nodes, id, fuel) ==
  IF id = None THEN TRUE
  ELSE IF fuel = 0 THEN FALSE
  ELSE ChainEnds(nodes, nodes[id].parent, fuel - 1)

\* get_absolute_path never returns for this node: its parent references
\* run into a cycle, and the interpreter ends the recursion with an error
Loops(nodes, id) == ~ChainEnds(nodes, id, Len(nodes))

RecursionError == Exc("RecursionError", <<"maximum recursion depth exceeded">>)

(* ------------------------------------------------------ filesystem service *)
\* a nested mapping entry of tree_dict: a name and a mapping or a content
DirEntry(name, kids) ==
  [name |-> name, isdir |-> TRUE, kids |-> kids, content |-> <<>>]
FileEntry(name, content) ==
  [name |-> name, isdir |-> FALSE, kids |-> <<>>, content |-> content]

RECURSIVE build_tree(_, _, _)
\* FileSystem._build_tree
build_tree(nodes, parent_dir, structure) ==
  IF structure = <<>> THEN nodes
  ELSE
    LET e  == Head(structure)
        id == Len(nodes) + 1
        n0 == Append(nodes, IF e.isdir THEN NewDirectory(e.name, None)
                            ELSE NewFile(e.name, e.content, None))
        n1 == add_child(n0, parent_dir, id).nodes
        n2 == IF e.isdir THEN build_tree(n1, id, e.kids) ELSE n1
    IN build_tree(n2, parent_dir, Tail(structure))

\* FileSystem.__init__ followed by create_file_system: root "/" is object 1
\* and the cursor starts at the root
create_file_system(id, tree_root) ==
  [id |-> id, root |-> 1, cwd |-> 1,
   nodes |-> build_tree(<<NewDirectory(<<"/">>, None)>>, 1, tree_root)]

RECURSIVE find(_, _, _)
\* FileSystem.find(path, temp_cwd); None when nothing resolves
find(fs, path, temp_cwd) ==
  With(PathParts(path), LAMBDA parts :
    IF parts = <<>> THEN temp_cwd
    ELSE IF ~Contains(fs.nodes, temp_cwd, parts[1]) THEN None
    ELSE With(ChildAt(fs.nodes, temp_cwd, parts[1]), LAMBDA obj :
           IF Len(parts) = 1 THEN obj
           ELSE IF IsDirectory(fs.nodes, obj)
                THEN find(fs, Join(Tail(parts), "/"), obj)
                ELSE None))

\* FileSystem.exists(path) with the default start, the root
exists(fs, path) == find(fs, path, fs.root) # None

\* FileSystem.pwd
pwd(fs) == get_absolute_path(fs.nodes, fs.cwd)

\* a cd that resolves every path from the root
cd_target_path_FromRoot(fs, path) ==
  IF ~StartsWith(path, "/") THEN <<"/">> \o path ELSE path

\* FileSystem.cd: the path that is resolved, absolute or under the cursor
cd_target_path(fs, path) ==
  IF ~StartsWith(path, "/")
  THEN With(pwd(fs), LAMBDA current :
         IF current = <<"/">> THEN <<"/">> \o path
         ELSE current \o <<"/">> \o path)
  ELSE path

\* FileSystem.cd
cd(fs, path) ==
  IF path = <<".", ".">> THEN
    IF Truthy(fs.nodes, fs.nodes[fs.cwd].parent)
    THEN [fs |-> [fs EXCEPT !.cwd = fs.nodes[fs.cwd].parent], err |-> NoErr]
    ELSE [fs |-> fs, err |-> Exc("ValueError", <<"Already at root directory">>)]
  ELSE IF path = <<".">> THEN [fs |-> fs, err |-> NoErr]
  ELSE IF path = <<"/">> THEN [fs |-> [fs EXCEPT !.cwd = fs.root], err |-> NoErr]
  ELSE IF ~StartsWith(path, "/") /\ Loops(fs.nodes, fs.cwd)
  THEN [fs |-> fs, err |-> RecursionError]
  ELSE
    With(cd_target_path(fs, path), LAMBDA target_path :
      IF exists(fs, target_path)
      THEN With(find(fs, target_path, fs.root), LAMBDA target :
             IF IsDirectory(fs.nodes, target)
             THEN [fs |-> [fs EXCEPT !.cwd = target], err |-> NoErr]
             ELSE [fs |-> fs,
                   err |-> Exc("NotADirectoryError",
                       <<"Path '">> \o target_path \o <<"' is not a directory">>)])
      ELSE [fs |-> fs,
            err |-> Exc("FileNotFoundError",
                        <<"Directory '">> \o path \o <<"' not found">>)])

\* [_.name for _ in directory]
ChildNames(nodes, d) ==
  [i \in 1..Len(nodes[d].children) |-> nodes[nodes[d].children[i].id].name]

\* FileSystem.ls(path) for a path that is given: val is the list of names,
\* isnone tells that None is returned
ls(fs, path) ==
  IF path = <<".">>
  THEN [val |-> ChildNames(fs.nodes, fs.cwd), isnone |-> FALSE, err |-> NoErr]
  ELSE With(find(fs, path, fs.root), LAMBDA obj :
         IF obj = None THEN [val |-> <<>>, isnone |-> TRUE, err |-> NoErr]
         ELSE IF IsDirectory(fs.nodes, obj)
         THEN [val |-> ChildNames(fs.nodes, obj), isnone |-> FALSE, err |-> NoErr]
         ELSE [val |-> <<>>, isnone |-> FALSE,
               err |-> Exc("NotADirectoryError", <<"Path is a file">>)])

\* FileSystem.resolve_parent_and_name, a path of several segments: the
\* parent is found from the root
resolve_parent(fs, parent_path, name) ==
  With(find(fs, parent_path, fs.root), LAMBDA parent :
    IF parent = None
    THEN [parent |-> None, name |-> name,
          err |-> Exc("FileNotFoundError",
                      <<"Parent directory not found: ">> \o parent_path)]
    ELSE IF ~IsDirectory(fs.nodes, parent)
    THEN [parent |-> None, name |-> name,
          err |-> Exc("NotADirectoryError",
                <<"Path '">> \o parent_path \o <<"' is not a directory">>)]
    ELSE [parent |-> parent, name |-> name, err |-> NoErr])

\* FileSystem.resolve_parent_and_name
resolve_parent_and_name(fs, path) ==
  With(PathParts(path), LAMBDA parts :
    IF parts = <<>>
    THEN [parent |-> None, name |-> <<>>,
          err |-> Exc("ValueError", <<"Path cannot be empty">>)]
    ELSE IF Len(parts) = 1
    THEN [parent |-> fs.cwd, name |-> parts[1], err |-> NoErr]
    ELSE resolve_parent(fs, Join(SubSeq(parts, 1, Len(parts) - 1), "/"),
                        parts[Len(parts)]))

\* FileSystem.rm
rm(fs, path) ==
  With(resolve_parent_and_name(fs, path), LAMBDA r :
    IF r.err # NoErr THEN [fs |-> fs, err |-> r.err]
    ELSE IF ~Contains(fs.nodes, r.parent, r.name)
    THEN [fs |-> fs,
          err |-> IF Loops(fs.nodes, r.parent) THEN RecursionError
                  ELSE Exc("FileNotFoundError",
                      <<"Object '">> \o r.name \o <<"' not found in '">>
                      \o get_absolute_path(fs.nodes, r.parent) \o <<"'">>)]
    ELSE [fs |-> [fs EXCEPT !.nodes[r.parent].children =
                     DelKey(fs.nodes[r.parent].children, r.name)],
          err |-> NoErr])

\* FileSystemObject.__init__ and rename: the name must have a visible character
BadName(name) == Strip(name) = <<>>

\* the FileExistsError of mkdir, touch and validate_move_or_copy; its message
\* reads the directory's absolute path
AlreadyExists(nodes, name, d) ==
  IF Loops(nodes, d) THEN RecursionError
  ELSE Exc("FileExistsError",
           <<"Object '">> \o name \o <<"' already exists in '">>
           \o get_absolute_path(nodes, d) \o <<"'">>)

\* parent.add_child(obj) for an object that was just constructed: it is the
\* last of fs.nodes
AddNew(fs, r, obj) ==
  IF Contains(fs.nodes, r.parent, r.name)
  THEN [fs |-> fs, err |-> AlreadyExists(fs.nodes, r.name, r.parent)]
  ELSE IF BadName(r.name)
  THEN [fs |-> fs,
        err |-> Exc("ValueError", <<"Name cannot be empty or whitespace-only">>)]
  ELSE With(add_child(Append(fs.nodes, obj), r.parent, Len(fs.nodes) + 1),
            LAMBDA a : [fs |-> [fs EXCEPT !.nodes = a.nodes], err |-> a.err])

\* FileSystem.mkdir
mkdir(fs, path) ==
  With(resolve_parent_and_name(fs, path), LAMBDA r :
    IF r.err # NoErr THEN [fs |-> fs, err |-> r.err]
    ELSE AddNew(fs, r, NewDirectory(r.name, None)))

\* FileSystem.touch
touch(fs, path) ==
  With(resolve_parent_and_name(fs, path), LAMBDA r :
    IF r.err # NoErr THEN [fs |-> fs, err |-> r.err]
    ELSE AddNew(fs, r, NewFile(r.name, <<>>, None)))

\* what validate_move_or_copy raises
Invalid(err) == [from_obj |-> None, to_obj |-> None, err |-> err]

\* a validation that does not look for the source's name in the destination
validate_found_AnyName(fs, to_path, from_obj, to_obj) ==
  IF ~IsDirectory(fs.nodes, to_obj)
  THEN Invalid(Exc("NotADirectoryError",
           <<"Destination path '">> \o to_path \o <<"' is not a directory">>))
  ELSE [from_obj |-> from_obj, to_obj |-> to_obj, err |-> NoErr]

\* FileSystem.validate_move_or_copy, once both paths resolved
validate_found(fs, to_path, from_obj, to_obj) ==
  IF ~IsDirectory(fs.nodes, to_obj)
  THEN Invalid(Exc("NotADirectoryError",
           <<"Destination path '">> \o to_path \o <<"' is not a directory">>))
  ELSE IF Contains(fs.nodes, to_obj, fs.nodes[from_obj].name)
  THEN Invalid(AlreadyExists(fs.nodes, fs.nodes[from_obj].name, to_obj))
  ELSE [from_obj |-> from_obj, to_obj |-> to_obj, err |-> NoErr]

\* FileSystem.validate_move_or_copy
validate_move_or_copy(fs, from_path, to_path) ==
  IF from_path = <<>>
  THEN Invalid(Exc("ValueError", <<"Source path cannot be empty">>))
  ELSE IF to_path = <<>>
  THEN Invalid(Exc("ValueError", <<"Destination path cannot be empty">>))
  ELSE IF from_path = to_path
  THEN Invalid(Exc("ValueError", <<"Source and destination paths must differ">>))
  ELSE IF find(fs, from_path, fs.root) = None
  THEN Invalid(Exc("FileNotFoundError",
                   <<"Object '">> \o from_path \o <<"' not found">>))
  ELSE IF find(fs, to_path, fs.root) = None
  THEN Invalid(Exc("FileNotFoundError",
                   <<"Object '">> \o to_path \o <<"' not found">>))
  ELSE validate_found(fs, to_path, find(fs, from_path, fs.root),
                      find(fs, to_path, fs.root))

\* a move that leaves the object in its old parent's child mapping
move_NoDetach(fs, from_, to) ==
  With(validate_move_or_copy(fs, from_, to), LAMBDA v :
    IF v.err # NoErr THEN [fs |-> fs, err |-> v.err]
    ELSE [fs |-> [fs EXCEPT
                    !.nodes[v.to_obj].children =
                       SetKey(@, fs.nodes[v.from_obj].name, v.from_obj),
                    !.nodes[v.from_obj].parent = v.to_obj],
          err |-> NoErr])

\* FileSystem.move
move(fs, from_, to) ==
  With(validate_move_or_copy(fs, from_, to), LAMBDA v :
    IF v.err # NoErr THEN [fs |-> fs, err |-> v.err]
    ELSE With(add_child(fs.nodes, v.to_obj, v.from_obj), LAMBDA a :
           [fs |-> [fs EXCEPT !.nodes = a.nodes], err |-> a.err]))

\* an object of the clone could not be made
NoClone(nodes, err) == [nodes |-> nodes, obj |-> None, err |-> err]

RECURSIVE clone_at(_, _, _, _)
RECURSIVE clone_children(_, _, _, _, _)
\* a clone that shares the children of a Directory with the original
clone_at_Shallow(nodes, id, new_parent, fuel) ==
  IF new_parent = nodes[id].parent
  THEN NoClone(nodes, Exc("ValueError",
                  <<"New parent cannot be the same as current directory">>))
  ELSE [nodes |-> Append(nodes, [nodes[id] EXCEPT !.parent = new_parent]),
        obj |-> Len(nodes) + 1, err |-> NoErr]

\* File.clone and Directory.clone at one depth of the call stack:
\* validate_clone, the type check of the new parent, the new object (it has
\* the next identity); fuel is the room left on the call stack, which a
\* descent over child mappings that lead back into themselves uses up
clone_at(nodes, id, new_parent, fuel) ==
  IF fuel = 0 THEN NoClone(nodes, RecursionError)
  ELSE IF new_parent = nodes[id].parent
  THEN NoClone(nodes, Exc("ValueError",
                  <<"New parent cannot be the same as current directory">>))
  ELSE IF nodes[id].kind = "file"
  THEN IF nodes[new_parent].kind = "file"
       THEN NoClone(nodes, Exc("TypeError", <<"Parent must be a Directory, not a File">>))
       ELSE [nodes |-> Append(nodes, NewFile(nodes[id].name, nodes[id].content,
                                             new_parent)),
             obj |-> Len(nodes) + 1, err |-> NoErr]
  ELSE IF nodes[new_parent].kind # "dir"
  THEN NoClone(nodes, Exc("TypeError", <<"Parent must be a Directory">>))
  ELSE clone_children(Append(nodes, NewDirectory(nodes[id].name, new_parent)),
                      id, 1, Len(nodes) + 1, fuel)

\* the loop of Directory.clone over self.children.values(), from the i-th
\* child on: clone the child under new_dir, then new_dir.add_child
clone_children(nodes, id, i, new_dir, fuel) ==
  IF i > Len(nodes[id].children)
  THEN [nodes |-> nodes, obj |-> new_dir, err |-> NoErr]
  ELSE With(clone_at(nodes, nodes[id].children[i].id, new_dir, fuel - 1), LAMBDA c :
    IF c.err # NoErr THEN c
    ELSE With(add_child(c.nodes, new_dir, c.obj), LAMBDA a :
      IF a.err # NoErr THEN NoClone(a.nodes, a.err)
      ELSE clone_children(a.nodes, id, i + 1, new_dir, fuel)))

\* obj.clone(new_parent): the objects made by a call that raises are
\* referenced by nothing
clone(nodes, id, new_parent) ==
  With(clone_at(nodes, id, new_parent, Len(nodes) + 1), LAMBDA c :
    IF c.err # NoErr THEN NoClone(nodes, c.err) ELSE c)

\* FileSystem.copy: the clone gets to_dir as its parent and is put in no
\* child mapping; copy drops the only reference to it
copy(fs, from_, to) ==
  With(validate_move_or_copy(fs, from_, to), LAMBDA v :
    IF v.err # NoErr THEN [fs |-> fs, err |-> v.err]
    ELSE [fs |-> fs, err |-> clone(fs.nodes, v.from_obj, v.to_obj).err])

\* File.write
write(nodes, id, content) ==
  IF content = <<>>
  THEN [nodes |-> nodes,
        err |-> Exc("ValueError",
                    <<"Content cannot be empty; use clear() to clear content">>)]
  ELSE [nodes |-> [nodes EXCEPT ![id].content = content], err |-> NoErr]

\* FileSystemObject.rename
rename(nodes, id, new_name) ==
  IF BadName(new_name)
  THEN [nodes |-> nodes,
        err |-> Exc("ValueError", <<"New name cannot be empty or whitespace-only">>)]
  ELSE [nodes |-> [nodes EXCEPT ![id].name = new_name], err |-> NoErr]

\* the KeyError of remove_child and get_child; str() of a KeyError is the
\* repr of its argument
NoChild(nodes, d, child_name) ==
  Exc("KeyError", <<"\"Child with name '">> \o child_name
                  \o <<"' does not exist in directory '">>
                  \o nodes[d].name \o <<"'\"">>)

\* Directory.remove_child
remove_child(nodes, d, child_name) ==
  IF ~Contains(nodes, d, child_name)
  THEN [nodes |-> nodes, err |-> NoChild(nodes, d, child_name)]
  ELSE [nodes |-> [nodes EXCEPT ![d].children = DelKey(nodes[d].children, child_name)],
        err |-> NoErr]

\* Directory.get_child
get_child(nodes, d, child_name) ==
  IF ~Contains(nodes, d, child_name)
  THEN [obj |-> None, err |-> NoChild(nodes, d, child_name)]
  ELSE [obj |-> ChildAt(nodes, d, child_name), err |-> NoErr]

(* ------------------------------------------------------------- environment *)
\* the variables of the session's Environment (a custom mapping, as the
\* nested and test sessions use): U holds text, E holds empty text
EnvInit == << [key |-> <<"U">>, value |-> <<"1">>],
              [key |-> <<"E">>, value |-> <<>>] >>

EnvHas(e, var) == \E i \in 1..Len(e) : e[i].key = var

EnvAt(e, var) == e[CHOOSE i \in 1..Len(e) : e[i].key = var].value

\* VarEnvironmentNotFound.__init__
VarEnvironmentNotFound(var) ==
  Exc("VarEnvironmentNotFound",
      <<"Variable ">> \o var \o <<" not found in environment">>)

\* a get that answers the empty text for a name that is not stored
env_get_OrEmpty(e, var) ==
  IF EnvHas(e, var) THEN [val |-> EnvAt(e, var), err |-> NoErr]
  ELSE [val |-> <<>>, err |-> NoErr]

\* Environment.get
env_get(e, var) ==
  IF EnvHas(e, var) THEN [val |-> EnvAt(e, var), err |-> NoErr]
  ELSE [val |-> <<>>,
        err |-> VarEnvironmentNotFound(var \o <<" not found in environment">>)]

\* self.environment[var] = value for a key that is stored
EnvPut(e, var, value) ==
  [i \in 1..Len(e) |-> IF e[i].key = var THEN [key |-> var, value |-> value]
                       ELSE e[i]]

\* Environment.set: `if self.get(var):` raises for a name that is not
\* stored and is false for a stored empty text; ret is what set returns
\* (<<>> for None)
env_set(e, var, value) ==
  IF env_get(e, var).err # NoErr
  THEN [env |-> e, ret |-> <<>>, err |-> env_get(e, var).err]
  ELSE IF env_get(e, var).val = <<>>
  THEN [env |-> e, ret |-> <<>>, err |-> NoErr]
  ELSE [env |-> EnvPut(e, var, value), ret |-> <<"Success">>, err |-> NoErr]

(* ------------------------------------------------------- decimal numerals *)
DigitChars == <<"0", "1", "2", "3", "4", "5", "6", "7", "8", "9">>

IsDigit(c) == \E i \in 1..10 : DigitChars[i] = c

DigitVal(c) == (CHOOSE i \in 1..10 : DigitChars[i] = c) - 1

RECURSIVE ToStr(_)
\* str(n) for n >= 0
ToStr(n) ==
  IF n < 10 THEN <<DigitChars[n + 1]>>
  ELSE ToStr(n \div 10) \o <<DigitChars[(n % 10) + 1]>>

RECURSIVE NatVal(_, _)
NatVal(s, acc) ==
  IF s = <<>> THEN acc ELSE NatVal(Tail(s), acc * 10 + DigitVal(Head(s)))

\* the digit strings int() accepts here, with an optional sign
IsInt(s) ==
  LET d == IF StartsWith(s, "-") \/ StartsWith(s, "+") THEN Tail(s) ELSE s
  IN d # <<>> /\ \A i \in 1..Len(d) : IsDigit(d[i])

\* int(s)
ToInt(s) ==
  IF StartsWith(s, "-") THEN 0 - NatVal(Tail(s), 0)
  ELSE IF StartsWith(s, "+") THEN NatVal(Tail(s), 0)
  ELSE NatVal(s, 0)

\* str(n) for an int n
IntStr(n) == IF n < 0 THEN <<"-">> \o ToStr(0 - n) ELSE ToStr(n)

(* ------------------------------------------------------- command framework *)
\* The declarative tables of the built-in command types: nargs of the one
\* positional ("?", "*", "+" or "none"), the store_true flags and the
\* flags that store a following value.
CommandTable(type) ==
  CASE type = "CdCommand"   -> [nargs |-> "?", bools |-> {}, vals |-> {}]
    [] type = "RmCommand"   -> [nargs |-> "?", bools |-> {}, vals |-> {}]
    [] type = "LsCommand"   -> [nargs |-> "*", bools |-> {<<"-", "a">>},
                                vals |-> {}]
    [] type = "HeadCommand" -> [nargs |-> "+", bools |-> {},
                                vals |-> {<<"-", "n">>}]
    [] type = "TacCommand"  -> [nargs |-> "+", bools |-> {}, vals |-> {}]
    [] type = "WcCommand"   -> [nargs |-> "+",
                                bools |-> {<<"-", "I">>, <<"-", "w">>,
                                           <<"-", "m">>, <<"-", "L">>},
                                vals |-> {}]
    [] type = "ScCommand"   -> [nargs |-> "none", bools |-> {},
                                vals |-> {<<"-", "-", "v", "f", "s">>,
                                          <<"-", "-", "s", "c", "r", "i", "p", "t">>}]

\* a token the parser takes for an option: it starts with '-', is longer
\* than one character and is not a negative number
LooksLikeFlag(tok) ==
  StartsWith(tok, "-") /\ Len(tok) > 1 /\ ~IsInt(tok)

RECURSIVE Scan(_, _, _)
\* one left-to-right pass over the tokens; acc collects the positionals,
\* the boolean flags seen and the (flag, value) pairs; bad is "" or the
\* reason the parser rejects the line
Scan(tab, args, acc) ==
  IF args = <<>> \/ acc.bad # "" THEN acc
  ELSE
    LET t == Head(args) IN
    IF t \in tab.bools
    THEN Scan(tab, Tail(args), [acc EXCEPT !.bools = @ \cup {t}])
    ELSE IF t \in tab.vals
    THEN IF Len(args) < 2 \/ LooksLikeFlag(args[2])
         THEN [acc EXCEPT !.bad = "expected one argument"]
         ELSE Scan(tab, Tail(Tail(args)),
                   [acc EXCEPT !.vals = Append(@, [flag |-> t, value |-> args[2]])])
    ELSE IF LooksLikeFlag(t)
    THEN [acc EXCEPT !.bad = "unrecognized arguments"]
    ELSE Scan(tab, Tail(args), [acc EXCEPT !.pos = Append(@, t)])

\* Command.parse_args, the positional's nargs against the count given
ArityOk(nargs, n) ==
  CASE nargs = "?"    -> n <= 1
    [] nargs = "*"    -> TRUE
    [] nargs = "+"    -> n >= 1
    [] nargs = "none" -> n = 0

\* the parsed data, or why there is none
Parsed(ok, raised, r) ==
  IF ok THEN [ok |-> TRUE, raised |-> NoErr, pos |-> r.pos, bools |-> r.bools,
              vals |-> r.vals]
  ELSE [ok |-> FALSE, raised |-> raised, pos |-> <<>>, bools |-> {},
        vals |-> <<>>]

\* Command.parse_args: ok with the parsed data, or not ok with raised = the
\* ArgumentError that escapes; not ok with raised = NoErr is the None that
\* parse_args returns after the parser printed its usage and tried to exit
parse_args(type, args) ==
  With(Scan(CommandTable(type), args,
            [pos |-> <<>>, bools |-> {}, vals |-> <<>>, bad |-> ""]), LAMBDA r :
    IF r.bad = "expected one argument"
    THEN Parsed(FALSE, Exc("ArgumentError", <<"expected one argument">>), r)
    ELSE IF r.bad # "" \/ ~ArityOk(CommandTable(type).nargs, Len(r.pos))
    THEN Parsed(FALSE, NoErr, r)
    ELSE IF type = "HeadCommand" /\
            \E i \in 1..Len(r.vals) : ~IsInt(r.vals[i].value)
    THEN Parsed(FALSE, Exc("ArgumentError", <<"invalid int value">>), r)
    ELSE Parsed(TRUE, NoErr, r))

\* the (flag, value) pairs stored for a flag
FlagIdx(data, flag) == {i \in 1..Len(data.vals) : data.vals[i].flag = flag}

\* the value stored for a flag: the last one given; has tells if any was
FlagValue(data, flag) ==
  IF FlagIdx(data, flag) = {} THEN [has |-> FALSE, value |-> <<>>]
  ELSE [has |-> TRUE,
        value |-> data.vals[CHOOSE i \in FlagIdx(data, flag) :
                              \A j \in FlagIdx(data, flag) : j <= i].value]

(* ------------------------------------------------------------ host files *)
\* paths of the host files the session can name
VfsXml == <<"v", "f", "s", ".", "x", "m", "l">>
V1 == <<"v", "1">>
V2 == <<"v", "2">>
S1 == <<"s", "1">>
S2 == <<"s", "2">>

t_vfs == <<"-", "-", "v", "f", "s">>
t_script == <<"-", "-", "s", "c", "r", "i", "p", "t">>

VfsPaths == {VfsXml, V1, V2}
ScriptPaths == {S1, S2}

\* XmlClient(path).xml_dict["/"] of the VFS documents on the host
XmlDict(path) ==
  IF path = V2
  THEN << DirEntry(<<"d">>, << FileEntry(<<"g">>, <<>>) >>),
          FileEntry(<<"a", "b">>, <<"y">>) >>
  ELSE << DirEntry(<<"h">>, << DirEntry(<<"d">>, <<>>),
                              FileEntry(<<"f">>, <<"a", " ", "b", "\n", "c">>) >>),
          FileEntry(<<"t">>, <<"x">>) >>

(* ------------------------------------------------------------------ state *)
VARIABLES
  fs,          \* terminal.fs: the FileSystem object (id, root, cwd, nodes)
  reg,         \* terminal.register: the Register object (id, fs, commands)
  classFs,     \* the fs attribute stamped on each command class
  nfs,         \* number of FileSystem / Register objects created so far
  is_running,  \* terminal.is_running
  env,         \* the shared Environment's mapping
  scripts,     \* the lines of the script files on the host
  pc,          \* where the bootstrap / the client of the session is
  stack,       \* the active ScriptRunner.run calls, innermost last
  out,         \* what the last step printed, one text per print call
  last         \* the last step: its runner, the line it routed, the error

vars == <<fs, reg, classFs, nfs, is_running, env, scripts, pc, stack, out, last>>

\* os.path.exists
os_path_exists(path) == path \in VfsPaths \cup ScriptPaths

(* ------------------------------------------------------- built-in commands *)
\* an effect in which an error that escapes a command stops the session
EffectStopsOnError(f, err, outs) ==
  [fs |-> f, reg |-> reg, classFs |-> classFs, nfs |-> nfs,
   err |-> err, outs |-> outs, call |-> <<>>,
   running |-> (is_running /\ err.cls = "none"), ran |-> ""]

\* What executing a command does to the session: the FileSystem and
\* Register the terminal refers to afterwards, the class stamps, the error
\* that escapes, the texts printed, the script a ScriptRunner is then
\* started on (<<>> for none), the running flag and the command type that
\* was instantiated ("" for none).
Effect(f, err, outs) ==
  [fs |-> f, reg |-> reg, classFs |-> classFs, nfs |-> nfs,
   err |-> err, outs |-> outs, call |-> <<>>, running |-> is_running,
   ran |-> ""]

\* outcome of a failed parse: the command returns at once, or the
\* ArgumentError escapes
ParseFailed(f, data) == Effect(f, data.raised, <<>>)

\* the one optional positional, "." when it is not given
PathOrDot(data) == IF data.pos = <<>> THEN <<".">> ELSE data.pos[1]

\* a cd command without the try statement
CdCommand_executeRaises(f, args) ==
  With(parse_args("CdCommand", args), LAMBDA data :
    IF ~data.ok THEN ParseFailed(f, data)
    ELSE With(cd(f, PathOrDot(data)), LAMBDA r :
           IF r.err # NoErr THEN Effect(f, r.err, <<>>)
           ELSE Effect(r.fs, NoErr, <<>>)))

\* CdCommand.execute
CdCommand_execute(f, args) ==
  With(parse_args("CdCommand", args), LAMBDA data :
    IF ~data.ok THEN ParseFailed(f, data)
    ELSE With(cd(f, PathOrDot(data)), LAMBDA r :
           IF r.err # NoErr
           THEN Effect(f, NoErr, << <<"cd: ">> \o r.err.text >>)
           ELSE Effect(r.fs, NoErr, <<>>)))

\* RmCommand.execute: fs.rm(data.path[0])
RmCommand_execute(f, args) ==
  With(parse_args("RmCommand", args), LAMBDA data :
    IF ~data.ok THEN ParseFailed(f, data)
    ELSE With(rm(f, << PathOrDot(data)[1] >>), LAMBDA r :
           Effect(r.fs, r.err, <<>>)))

\* an ls that leaves the cursor in the directory it listed
LsCommand_executeEnters(f, args) ==
  With(parse_args("LsCommand", args), LAMBDA data :
    IF ~data.ok THEN ParseFailed(f, data)
    ELSE With(ls(f, IF data.pos = <<>> THEN <<".">> ELSE data.pos[1]), LAMBDA r :
           IF r.err # NoErr THEN Effect(f, r.err, <<>>)
           ELSE IF r.isnone
           THEN Effect(f, Exc("TypeError", <<"can only join an iterable">>), <<>>)
           ELSE Effect(cd(f, PathOrDot(data)).fs, NoErr, << Join(r.val, "\n") >>)))

\* LsCommand.execute
LsCommand_execute(f, args) ==
  With(parse_args("LsCommand", args), LAMBDA data :
    IF ~data.ok THEN ParseFailed(f, data)
    ELSE With(ls(f, IF data.pos = <<>> THEN <<".">> ELSE data.pos[1]), LAMBDA r :
           IF r.err # NoErr THEN Effect(f, r.err, <<>>)
           ELSE IF r.isnone
           THEN Effect(f, Exc("TypeError", <<"can only join an iterable">>), <<>>)
           ELSE Effect(f, NoErr, << Join(r.val, "\n") >>)))

Min(a, b) == IF a < b THEN a ELSE b

\* a head that prints every line
FirstLines_All(lines, n) == lines

\* the first n of the lines
FirstLines(lines, n) == SubSeq(lines, 1, Min(n, Len(lines)))

\* HeadCommand.execute, the file and the count at hand
HeadCommand_print(f, obj, nv) ==
  IF IsDirectory(f.nodes, obj)
  THEN Effect(f, Exc("TypeError",
                     <<"Object have to be a File, not a Directory">>), <<>>)
  ELSE IF (IF nv.has THEN ToInt(nv.value) ELSE 10) <= 0
  THEN Effect(f, Exc("ValueError",
                     <<"Number have to be more than 0. Your n: ">>
                     \o IntStr(ToInt(nv.value))), <<>>)
  ELSE Effect(f, NoErr,
              << f.nodes[obj].name,
                 Join(FirstLines(SplitOn(f.nodes[obj].content, {"\n"}),
                                 IF nv.has THEN ToInt(nv.value) ELSE 10),
                      "\n") >>)

FileNotExists ==
  Exc("FileExistsError", <<"File does not exists. Check your path.">>)

\* HeadCommand.execute
HeadCommand_execute(f, args) ==
  With(parse_args("HeadCommand", args), LAMBDA data :
    IF ~data.ok THEN ParseFailed(f, data)
    ELSE IF ~exists(f, data.pos[1]) THEN Effect(f, FileNotExists, <<>>)
    ELSE HeadCommand_print(f, find(f, data.pos[1], f.root),
                           FlagValue(data, <<"-", "n">>)))

Reverse(q) == [i \in 1..Len(q) |-> q[Len(q) + 1 - i]]

NoRead == Exc("AttributeError", <<"'Directory' object has no attribute 'read'">>)

\* TacCommand.execute
TacCommand_execute(f, args) ==
  With(parse_args("TacCommand", args), LAMBDA data :
    IF ~data.ok THEN ParseFailed(f, data)
    ELSE IF ~exists(f, data.pos[1]) THEN Effect(f, FileNotExists, <<>>)
    ELSE With(find(f, data.pos[1], f.root), LAMBDA obj :
           IF IsDirectory(f.nodes, obj) THEN Effect(f, NoRead, <<>>)
           ELSE Effect(f, NoErr,
                       << Join(Reverse(SplitOn(f.nodes[obj].content, {"\n"})),
                               "\n") >>)))

\* WcCommand.get_word_count
get_word_count(file_content) == Len(SplitWs(file_content))

\* WcCommand.get_lines_count
get_lines_count(file_content) == Len(SplitOn(file_content, {"\n"}))

\* WcCommand.get_symbols_count
get_symbols_count(file_content) == Len(file_content)

\* max(len(line) for line in lines)
MaxLen(segs) ==
  CHOOSE m \in {Len(segs[i]) : i \in 1..Len(segs)} :
    \A i \in 1..Len(segs) : Len(segs[i]) <= m

\* WcCommand.get_max_length_line
get_max_length_line(file_content) == MaxLen(SplitOn(file_content, {"\n"}))

\* a wc that prints the requested counts with the lines first
WcCommand_line_LinesFirst(bools, file_str, name) ==
  IF bools = {}
  THEN ToStr(get_lines_count(file_str)) \o <<" ">>
       \o ToStr(get_word_count(file_str)) \o <<" ">>
       \o ToStr(get_symbols_count(file_str)) \o <<" ">> \o name
  ELSE (IF <<"-", "I">> \in bools
        THEN ToStr(get_lines_count(file_str)) \o <<" ">> ELSE <<>>)
       \o (IF <<"-", "w">> \in bools
           THEN ToStr(get_word_count(file_str)) \o <<" ">> ELSE <<>>)
       \o (IF <<"-", "m">> \in bools
           THEN ToStr(get_symbols_count(file_str)) \o <<" ">> ELSE <<>>)
       \o (IF <<"-", "L">> \in bools
           THEN ToStr(get_max_length_line(file_str)) \o <<" ">> ELSE <<>>)
       \o name

\* WcCommand.execute, the line that is printed
WcCommand_line(bools, file_str, name) ==
  IF bools = {}
  THEN ToStr(get_lines_count(file_str)) \o <<" ">>
       \o ToStr(get_word_count(file_str)) \o <<" ">>
       \o ToStr(get_symbols_count(file_str)) \o <<" ">> \o name
  ELSE (IF <<"-", "w">> \in bools
        THEN ToStr(get_word_count(file_str)) \o <<" ">> ELSE <<>>)
       \o (IF <<"-", "I">> \in bools
           THEN ToStr(get_lines_count(file_str)) \o <<" ">> ELSE <<>>)
       \o (IF <<"-", "m">> \in bools
           THEN ToStr(get_symbols_count(file_str)) \o <<" ">> ELSE <<>>)
       \o (IF <<"-", "L">> \in bools
           THEN ToStr(get_max_length_line(file_str)) \o <<" ">> ELSE <<>>)
       \o name

\* WcCommand.execute
WcCommand_execute(f, args) ==
  With(parse_args("WcCommand", args), LAMBDA data :
    IF ~data.ok THEN ParseFailed(f, data)
    ELSE IF ~exists(f, data.pos[1]) THEN Effect(f, FileNotExists, <<>>)
    ELSE With(find(f, data.pos[1], f.root), LAMBDA obj :
           IF IsDirectory(f.nodes, obj) THEN Effect(f, NoRead, <<>>)
           ELSE Effect(f, NoErr,
                       << WcCommand_line(data.bools, f.nodes[obj].content,
                                         f.nodes[obj].name) >>)))

(* ---------------------------------------------------------------- register *)
CommandTypes == {"CdCommand", "LsCommand", "ScCommand", "HeadCommand",
                 "TacCommand", "WcCommand", "RmCommand"}

\* name in register.commands
HasCommand(r, name) ==
  \E i \in 1..Len(r.commands) : r.commands[i].name = name

\* register.commands[name]
CommandAt(r, name) ==
  r.commands[CHOOSE i \in 1..Len(r.commands) : r.commands[i].name = name].type

\* Register.__init__
NewRegister(id, fsid) == [id |-> id, fs |-> fsid, commands |-> <<>>]

\* a register that overwrites: the last registration wins
Register_registerOverwrite(r, name, command_class) ==
  [reg |-> [r EXCEPT !.commands =
              Append(SelectSeq(@, LAMBDA c : c.name # name),
                     [name |-> name, type |-> command_class])],
   err |-> NoErr]

\* Register.register
Register_register(r, name, command_class) ==
  IF HasCommand(r, name)
  THEN [reg |-> r,
        err |-> Exc("ValueError",
                    <<"Command ">> \o name \o <<" already registered">>)]
  ELSE [reg |-> [r EXCEPT !.commands =
                    Append(@, [name |-> name, type |-> command_class])],
        err |-> NoErr]

\* Register.get
Register_get(r, name) ==
  IF HasCommand(r, name) THEN [val |-> CommandAt(r, name), err |-> NoErr]
  ELSE [val |-> "",
        err |-> Exc("ValueError", <<"Command ">> \o name \o <<" not found">>)]

\* the FileSystem object a Register's fs attribute refers to; the session
\* keeps one FileSystem alive, the one the terminal and its register share
FsObject(id) == fs

\* ScCommand.execute, the VFS part: the FileSystem built from the --vfs
\* document, or the error (a missing file; a file that is no XML document)
ScLoadVfs(path) ==
  IF ~os_path_exists(path)
  THEN [err |-> Exc("FileExistsError",
                    <<"VFS not found. Check your path to VFS.">>), fs |-> fs]
  ELSE IF path \notin VfsPaths
  THEN [err |-> Exc("ParseError", <<"syntax error">>), fs |-> fs]
  ELSE [err |-> NoErr, fs |-> create_file_system(nfs + 1, XmlDict(path))]

\* a ScCommand that does not look for the script
ScCheckScriptSkipped(path) == NoErr

\* ScCommand.execute, the script part
ScCheckScript(path) ==
  IF os_path_exists(path) THEN NoErr
  ELSE Exc("FileExistsError",
           <<"Script not found. Check your path to script.">>)

\* a new registry that is left empty
ScCopyNothing(r) == <<>>

\* ScCommand.execute: the commands copied from the invoking registry
ScCopyCommands(r) == [i \in 1..Len(r.commands) |-> r.commands[i]]

\* a swap that gives the terminal the new registry and keeps its FileSystem
ScSwapKeepsFs(new_file_system, path_to_script) ==
  [fs |-> fs,
   reg |-> [NewRegister(nfs + 1, new_file_system.id)
              EXCEPT !.commands = reg.commands],
   classFs |-> classFs, nfs |-> nfs + 1, err |-> NoErr, outs |-> <<>>,
   call |-> path_to_script, running |-> is_running, ran |-> ""]

\* a swap that gives the terminal the new FileSystem and keeps its registry
ScSwapKeepsRegister(new_file_system, path_to_script) ==
  [fs |-> new_file_system, reg |-> reg, classFs |-> classFs, nfs |-> nfs + 1,
   err |-> NoErr, outs |-> <<>>, call |-> path_to_script,
   running |-> is_running, ran |-> ""]

\* ScCommand.execute, the swap: the new Register, the class stamps, the
\* terminal's fs and register replaced, a ScriptRunner started on the script
ScSwap(new_file_system, path_to_script) ==
  LET new_register == [NewRegister(nfs + 1, new_file_system.id)
                         EXCEPT !.commands = ScCopyCommands(reg)]
      stamped == {reg.commands[i].type : i \in 1..Len(reg.commands)}
  IN [fs |-> new_file_system, reg |-> new_register,
      classFs |-> [t \in CommandTypes |->
                     IF t \in stamped THEN new_file_system.id ELSE classFs[t]],
      nfs |-> nfs + 1, err |-> NoErr, outs |-> <<>>,
      call |-> path_to_script, running |-> is_running, ran |-> ""]

\* what os.path.exists is asked when a flag was not given
NotAPath ==
  Exc("TypeError",
      <<"stat: path should be string, bytes, os.PathLike or integer, not NoneType">>)

\* ScCommand.execute, the file system loaded
ScWithVfs(f, loaded, script) ==
  IF loaded.err # NoErr THEN Effect(f, loaded.err, <<>>)
  ELSE IF ~script.has THEN Effect(f, NotAPath, <<>>)
  ELSE With(ScCheckScript(script.value), LAMBDA missing :
         IF missing # NoErr THEN Effect(f, missing, <<>>)
         ELSE ScSwap(loaded.fs, script.value))

\* ScCommand.execute
ScCommand_execute(f, args) ==
  With(parse_args("ScCommand", args), LAMBDA data :
    IF ~data.ok THEN ParseFailed(f, data)
    ELSE IF ~FlagValue(data, t_vfs).has THEN Effect(f, NotAPath, <<>>)
    ELSE ScWithVfs(f, ScLoadVfs(FlagValue(data, t_vfs).value),
                   FlagValue(data, t_script)))

\* Register.execute, the command type at hand: cmd = cmd_class(), the
\* collaborators injected, cmd.execute(args)
Register_run(type, f, args) ==
  CASE type = "CdCommand"   -> CdCommand_execute(f, args)
    [] type = "RmCommand"   -> RmCommand_execute(f, args)
    [] type = "LsCommand"   -> LsCommand_execute(f, args)
    [] type = "HeadCommand" -> HeadCommand_execute(f, args)
    [] type = "TacCommand"  -> TacCommand_execute(f, args)
    [] type = "WcCommand"   -> WcCommand_execute(f, args)
    [] type = "ScCommand"   -> ScCommand_execute(f, args)

\* Register.execute
Register_execute(name, args) ==
  With(Register_get(reg, name), LAMBDA g :
    IF g.err # NoErr THEN Effect(fs, g.err, <<>>)
    ELSE [Register_run(g.val, FsObject(reg.fs), args) EXCEPT !.ran = g.val])

(* ---------------------------------------------------------------- terminal *)
s_exit == <<"e", "x", "i", "t">>

UnknownPrefix == <<"Unknown command: ">>

\* an exception whose str() is its message attribute
UnknownCommandNameByMessage(command_name) ==
  [cls |-> "UnknownCommandName", text |-> UnknownPrefix \o command_name,
   message |-> UnknownPrefix \o command_name]

\* UnknownCommandName.__init__
UnknownCommandName(command_name) ==
  [cls |-> "UnknownCommandName", text |-> command_name,
   message |-> UnknownPrefix \o command_name]

\* User.get_user_for_shell(cwd) of Terminal.get_prompt
get_prompt(f) ==
  <<"user@host">> \o <<":~">> \o get_absolute_path(f.nodes, f.cwd) \o <<"$ ">>

\* an exit test that gives way to a command registered as "exit"
IsExitUnlessRegistered(command_name) ==
  command_name = <<"e", "x", "i", "t">> /\ ~HasCommand(reg, command_name)

\* Terminal.process_line: the test for the built-in exit
IsExit(command_name) == command_name = s_exit

\* Terminal.process_line, the `$` branch: print(self.env.get(name))
PrintVar(v) ==
  IF v.err # NoErr THEN Effect(fs, v.err, <<>>)
  ELSE Effect(fs, NoErr, << v.val >>)

\* Terminal.process_line, the line split into its tokens
Route(command_name, args) ==
  IF IsExit(command_name)
  THEN [Effect(fs, NoErr, <<>>) EXCEPT !.running = FALSE]
  ELSE IF StartsWith(command_name, "$")
  THEN PrintVar(env_get(env, Tail(command_name)))
  ELSE IF HasCommand(reg, command_name)
  THEN Register_execute(command_name, args)
  ELSE Effect(fs, UnknownCommandName(UnknownPrefix \o command_name), <<>>)

\* Terminal.process_line
process_line(line) ==
  IF Strip(line) = <<>> THEN Effect(fs, NoErr, <<>>)
  ELSE With(SplitWs(line), LAMBDA parts : Route(Head(parts), Tail(parts)))

(* ------------------------------------------------------- lines and scripts *)
t_cd == <<"c", "d">>
t_ls == <<"l", "s">>
t_rm == <<"r", "m">>
t_sc == <<"s", "c">>
t_head == <<"h", "e", "a", "d">>
t_tac == <<"t", "a", "c">>
t_wc == <<"w", "c">>
t_zz == <<"z", "z">>
NoFile == <<"n", "o">>

ScLine(v, sp) == Words(<<t_sc, t_vfs, v, t_script, sp>>)

\* the lines typed at the prompt
InputLines ==
  { <<>>, <<" ", "\t">>,
    s_exit, Words(<<s_exit, <<"n", "o", "w">> >>), <<" ">> \o s_exit \o <<" ">>,
    <<"$", "U">>, <<"$", "E">>, <<"$", "X">>,
    t_zz, Words(<< <<"#">>, <<"c">> >>),
    Words(<<t_cd, <<"h">> >>), Words(<<t_cd, <<".", ".">> >>),
    Words(<<t_cd, <<"/">> >>), Words(<<t_cd, <<"d">> >>),
    Words(<<t_cd, <<"t">> >>),
    Words(<<t_cd, <<".", ".", "/", ".", ".">> >>),
    t_ls, Words(<<t_ls, <<"q">> >>),
    Words(<<t_rm, <<"t">> >>), Words(<<t_rm, <<"h">> >>),
    Words(<<t_rm, <<"/", "t">> >>),
    Words(<<t_head, <<"t">> >>), Words(<<t_tac, <<"q">> >>),
    Words(<<t_wc, <<"h", "/", "f">> >>),
    Words(<<t_head, <<"f">> >>), Words(<<t_tac, <<"f">> >>),
    Words(<<t_wc, <<"f">> >>), Words(<<t_ls, <<"d">> >>),
    ScLine(V1, S1), ScLine(V2, S2), ScLine(NoFile, S1), ScLine(V1, NoFile),
    ScLine(S1, NoFile) }

\* the texts a script file may hold, line by line: s1 holds plain lines,
\* some of them with whitespace around them, s2 holds a line that starts a
\* further script
ScriptTexts(path) ==
  IF path = S1
  THEN { << Words(<<t_cd, <<"h">> >>), <<" ">>,
            <<"\t">> \o Words(<< <<"#">>, <<"c">> >>), t_zz,
            <<" ">> \o Words(<<t_cd, <<"d">> >>) \o <<"\t">>, s_exit,
            Words(<<t_cd, <<"/">> >>) >>,
         << <<"$", "X">>, Words(<<t_ls, <<"q">> >>),
            Words(<<s_exit, <<"n", "o", "w">> >>), Words(<<t_rm, <<"h">> >>) >>,
         <<>> }
  ELSE { << Words(<<t_rm, <<"t">> >>), ScLine(V2, S1), Words(<<t_cd, <<"d">> >>) >>,
         << ScLine(V1, S2), Words(<<t_cd, <<"h">> >>) >> }

(* -------------------------------------------------------------- bootstrap *)
\* main(): the registrations, in order
MainCommands ==
  << [name |-> t_cd, type |-> "CdCommand"],
     [name |-> t_ls, type |-> "LsCommand"],
     [name |-> t_sc, type |-> "ScCommand"],
     [name |-> t_head, type |-> "HeadCommand"],
     [name |-> t_tac, type |-> "TacCommand"],
     [name |-> t_wc, type |-> "WcCommand"],
     [name |-> t_rm, type |-> "RmCommand"] >>

\* registrations a client of Register makes besides main's
ClientCommands ==
  { [name |-> s_exit, type |-> "CdCommand"],
    [name |-> t_cd, type |-> "LsCommand"] }

\* the record of a step: the action, the line it handled (routed tells
\* whether process_line was called with it), the script file and line
\* number, the command type instantiated and the error that was raised
Step(act, line, file, n, routed, ran, err) ==
  [act |-> act, line |-> line, file |-> file, n |-> n, routed |-> routed,
   ran |-> ran, err |-> err]

Init ==
  /\ fs = create_file_system(1, XmlDict(VfsXml))
  /\ reg = NewRegister(1, 1)
  /\ classFs = [t \in CommandTypes |-> None]
  /\ nfs = 1
  /\ is_running = TRUE
  /\ env = EnvInit
  /\ scripts \in {f \in [ScriptPaths -> UNION {ScriptTexts(p) : p \in ScriptPaths}] :
                  \A p \in ScriptPaths : f[p] \in ScriptTexts(p)}
  /\ pc = [at |-> "main", i |-> 1]
  /\ stack = <<>>
  /\ out = <<>>
  /\ last = Step("init", <<>>, <<>>, 0, FALSE, "", NoErr)

\* the session after a routed line
Apply(e) ==
  /\ fs' = e.fs
  /\ reg' = e.reg
  /\ classFs' = e.classFs
  /\ nfs' = e.nfs
  /\ is_running' = e.running
  /\ UNCHANGED <<env, scripts>>

Session == <<fs, reg, classFs, nfs, is_running, env, scripts>>

\* a ScriptRunner.run call that starts: its file and the next line number
Frame(path) == [file |-> path, i |-> 1]

Called(e) == IF e.call = <<>> THEN <<>> ELSE << Frame(e.call) >>

\* Register.register: self.commands[name].fs = self.fs, the class attribute
\* set when the name was free
Stamped(type, err) ==
  IF err = NoErr THEN [classFs EXCEPT ![type] = reg.fs] ELSE classFs

\* main(): register_command.register(name, type); an error ends the program
MainRegister ==
  /\ pc.at = "main" /\ pc.i <= Len(MainCommands)
  /\ LET c == MainCommands[pc.i]
         r == Register_register(reg, c.name, c.type)
     IN /\ reg' = r.reg
        /\ pc' = IF r.err = NoErr THEN [pc EXCEPT !.i = @ + 1]
                 ELSE [pc EXCEPT !.at = "crashed"]
        /\ classFs' = Stamped(c.type, r.err)
        /\ last' = Step("register", c.name, <<>>, 0, FALSE, "", r.err)
  /\ out' = <<>>
  /\ UNCHANGED <<fs, nfs, is_running, env, scripts, stack>>

\* a client's Register.register call; the client handles the error
ClientRegister ==
  /\ pc.at = "main" /\ pc.i \in {1, Len(MainCommands) + 1}
  /\ \E c \in ClientCommands :
       LET r == Register_register(reg, c.name, c.type) IN
       /\ reg' = r.reg
       /\ classFs' = Stamped(c.type, r.err)
       /\ last' = Step("register", c.name, <<>>, 0, FALSE, "", r.err)
  /\ out' = <<>>
  /\ UNCHANGED <<fs, nfs, is_running, env, scripts, pc, stack>>

\* a client's Register.get call
ClientGet ==
  /\ pc.at = "main" /\ pc.i \in {1, Len(MainCommands) + 1}
  /\ \E name \in {t_cd, t_zz} :
       last' = Step("get", name, <<>>, 0, FALSE, "", Register_get(reg, name).err)
  /\ out' = <<>>
  /\ UNCHANGED <<Session, pc, stack>>

\* a client's Register.execute(name, ".") call
ClientExecute ==
  /\ pc.at = "main" /\ pc.i \in {1, Len(MainCommands) + 1}
  /\ \E name \in {t_cd, t_zz} :
       \E e \in {Register_execute(name, << <<".">> >>)} :
       /\ Apply(e)
       /\ out' = e.outs
       /\ last' = Step("execute", name, <<>>, 0, FALSE, e.ran, e.err)
  /\ UNCHANGED <<pc, stack>>

\* parse_input: the exceptions its try statement handles
ParseInputCatches(err) == err.cls = "FileExistsError"

\* parse_input(terminal) with --vfs and --script both given, then on to the
\* InteractiveRunner
ParseInputBoth ==
  /\ pc.at = "main" /\ pc.i > Len(MainCommands)
  /\ \E v \in {V1, V2, NoFile, S1}, sp \in {S1, S2, NoFile} :
       LET line == ScLine(v, sp) IN
       \E e \in {process_line(line)} :
          /\ e.nfs <= MaxFs
          /\ Apply(e)
          /\ stack' = Called(e)
          /\ out' = IF e.err # NoErr /\ ParseInputCatches(e.err)
                    THEN << e.err.text >> ELSE <<>>
          /\ pc' = IF e.err = NoErr \/ ParseInputCatches(e.err)
                   THEN [pc EXCEPT !.at = "repl"]
                   ELSE [pc EXCEPT !.at = "crashed"]
          /\ last' = Step("parse_input", line, <<>>, 0, TRUE, e.ran, e.err)

\* parse_input(terminal) without the two flags: nothing is routed
ParseInputNone ==
  /\ pc.at = "main" /\ pc.i > Len(MainCommands)
  /\ pc' = [pc EXCEPT !.at = "repl"]
  /\ out' = <<>>
  /\ last' = Step("parse_input", <<>>, <<>>, 0, FALSE, "", NoErr)
  /\ UNCHANGED <<Session, stack>>

\* a client's ScriptRunner(terminal).run(path)
ClientRunScript ==
  /\ pc.at = "main" /\ pc.i > Len(MainCommands)
  /\ \E path \in ScriptPaths \cup {NoFile} :
       /\ stack' = << Frame(path) >>
       /\ last' = Step("run_script", <<>>, path, 0, FALSE, "", NoErr)
  /\ out' = <<>>
  /\ pc' = [pc EXCEPT !.at = "done"]
  /\ UNCHANGED Session

(* ----------------------------------------------------------------- runners *)
Top == stack[Len(stack)]

Pop == SubSeq(stack, 1, Len(stack) - 1)

\* the lines `for line in f` yields
FileLines(path) == IF path \in ScriptPaths THEN scripts[path] ELSE <<>>

\* the report with the lines counted from 0
ErrorOnLineFromZero(line_num, e) ==
  <<"Error on line ">> \o ToStr(line_num - 1) \o <<": ">> \o e.text

\* ScriptRunner.run: the report of a line's error
ErrorOnLine(line_num, e) ==
  <<"Error on line ">> \o ToStr(line_num) \o <<": ">> \o e.text

\* a loop that never looks at the running flag
ShouldBreakNever == FALSE

\* ScriptRunner.run: the test that ends the loop before a line is handled
ShouldBreak == ~is_running

\* ScriptRunner.run: open() fails, the file is reported and run returns
ScriptNotFound ==
  /\ stack # <<>>
  /\ ~os_path_exists(Top.file)
  /\ stack' = Pop
  /\ out' = << <<"Script file not found: ">> \o Top.file >>
  /\ last' = Step("script_not_found", <<>>, Top.file, 0, FALSE, "", NoErr)
  /\ UNCHANGED <<Session, pc>>

\* an echo printed with the prompt of the session after the line
script_echo_After(f, e, line) == get_prompt(e.fs) \o line

\* ScriptRunner.run: print(f"{self.terminal.get_prompt()}{line}"), the
\* session in f before the line is routed, its effect in e
script_echo(f, e, line) == get_prompt(f) \o line

\* a nested run that is put off until the running script has ended
EnterLater(frames, e) == Called(e) \o frames

\* ScCommand.execute called from a script's line: runner.run(path_to_script)
\* is a call, the new run is innermost and the calling run resumes when it
\* returns
Enter(frames, e) == frames \o Called(e)

\* ScriptRunner.run: one iteration of the loop over the file's lines
ScriptStep ==
  /\ stack # <<>>
  /\ os_path_exists(Top.file)
  /\ Top.i <= Len(FileLines(Top.file))
  /\ ~ShouldBreak
  /\ LET line_num == Top.i
         line == Strip(FileLines(Top.file)[line_num])
         advanced == [stack EXCEPT ![Len(stack)].i = @ + 1]
     IN IF line = <<>> \/ StartsWith(line, "#")
        THEN /\ stack' = advanced
             /\ out' = <<>>
             /\ last' = Step("script", line, Top.file, line_num, FALSE, "", NoErr)
             /\ UNCHANGED Session
        ELSE \E e \in {process_line(line)} :
             /\ e.nfs <= MaxFs
             /\ Apply(e)
             /\ stack' = Enter(advanced, e)
             /\ out' = << script_echo(fs, e, line) >> \o e.outs
                       \o (IF e.err # NoErr
                           THEN << ErrorOnLine(line_num, e.err) >> ELSE <<>>)
             /\ last' = Step("script", line, Top.file, line_num, TRUE, e.ran,
                             e.err)
  /\ UNCHANGED pc

\* a break after which the enclosing runner goes on: the flag is the inner
\* run's own and is set again when it returns
ScriptBreakResumes ==
  /\ stack # <<>>
  /\ os_path_exists(Top.file)
  /\ Top.i <= Len(FileLines(Top.file))
  /\ ShouldBreak
  /\ stack' = Pop
  /\ out' = <<>>
  /\ is_running' = TRUE
  /\ last' = Step("script_break", <<>>, Top.file, Top.i, FALSE, "", NoErr)
  /\ UNCHANGED <<fs, reg, classFs, nfs, env, scripts, pc>>

\* ScriptRunner.run: the running flag is false when the next line is read
ScriptBreak ==
  /\ stack # <<>>
  /\ os_path_exists(Top.file)
  /\ Top.i <= Len(FileLines(Top.file))
  /\ ShouldBreak
  /\ stack' = Pop
  /\ out' = <<>>
  /\ last' = Step("script_break", <<>>, Top.file, Top.i, FALSE, "", NoErr)
  /\ UNCHANGED <<Session, pc>>

\* ScriptRunner.run: the file has no further line
ScriptReturn ==
  /\ stack # <<>>
  /\ os_path_exists(Top.file)
  /\ Top.i > Len(FileLines(Top.file))
  /\ stack' = Pop
  /\ out' = <<>>
  /\ last' = Step("script_end", <<>>, Top.file, Top.i, FALSE, "", NoErr)
  /\ UNCHANGED <<Session, pc>>

\* a loop that handles the unknown command alone
InteractiveCatchesUnknownOnly(err) == err.cls = "UnknownCommandName"

\* InteractiveRunner.run: the exceptions of routing a line that the loop
\* handles: UnknownCommandName, and every other Exception
InteractiveCatches(err) ==
  err.cls = "UnknownCommandName" \/ err.cls # "none"

\* InteractiveRunner.run: one iteration that reads a line and routes it
ReplStep ==
  /\ pc.at = "repl" /\ stack = <<>>
  /\ is_running
  /\ \E line \in InputLines :
       \E e \in {process_line(line)} :
       /\ e.nfs <= MaxFs
       /\ Apply(e)
       /\ stack' = Called(e)
       /\ out' = e.outs \o (IF e.err # NoErr /\ InteractiveCatches(e.err)
                            THEN << e.err.text >> ELSE <<>>)
       /\ pc' = IF e.err = NoErr \/ InteractiveCatches(e.err) THEN pc
                ELSE [pc EXCEPT !.at = "crashed"]
       /\ last' = Step("repl", line, <<>>, 0, TRUE, e.ran, e.err)

\* InteractiveRunner.run: input() raises KeyboardInterrupt or EOFError
ReplInterrupt ==
  /\ pc.at = "repl" /\ stack = <<>>
  /\ is_running
  /\ pc' = [pc EXCEPT !.at = "done"]
  /\ out' = << <<>> >>
  /\ last' = Step("repl_interrupt", <<>>, <<>>, 0, FALSE, "", NoErr)
  /\ UNCHANGED <<Session, stack>>

\* InteractiveRunner.run: the loop condition is false
ReplExit ==
  /\ pc.at = "repl" /\ stack = <<>>
  /\ ~is_running
  /\ pc' = [pc EXCEPT !.at = "done"]
  /\ out' = <<>>
  /\ last' = Step("repl_exit", <<>>, <<>>, 0, FALSE, "", NoErr)
  /\ UNCHANGED <<Session, stack>>

Next ==
  \/ MainRegister
  \/ ClientRegister
  \/ ClientGet
  \/ ClientExecute
  \/ ParseInputBoth
  \/ ParseInputNone
  \/ ClientRunScript
  \/ ScriptNotFound
  \/ ScriptStep
  \/ ScriptBreak
  \/ ScriptReturn
  \/ ReplStep
  \/ ReplInterrupt
  \/ ReplExit

Spec == Init /\ [][Next]_vars

(* ------------------------------------------------- one ScriptRunner.run *)
\* a client that registers main's commands and calls ScriptRunner.run once:
\* the steps of the run and of the runs its sc lines start, each taken when
\* it can be (the interpreter goes on with the next statement)
RunNext ==
  \/ MainRegister
  \/ ClientRunScript
  \/ ScriptNotFound
  \/ ScriptStep
  \/ ScriptBreak
  \/ ScriptReturn

\* the guard of ScriptStep: a line is left, the session runs, and the
\* objects the line would create are within the bound
CanStep ==
  /\ stack # <<>>
  /\ os_path_exists(Top.file)
  /\ Top.i <= Len(FileLines(Top.file))
  /\ ~ShouldBreak
  /\ With(Strip(FileLines(Top.file)[Top.i]), LAMBDA line :
        line = <<>> \/ StartsWith(line, "#") \/ process_line(line).nfs <= MaxFs)

\* weak fairness of each step of a run; that of ScriptStep is written with
\* its guard in place of ENABLED
RunFairness ==
  /\ WF_vars(ScriptNotFound) /\ WF_vars(ScriptBreak) /\ WF_vars(ScriptReturn)
  /\ ([]<>(~CanStep) \/ []<><<ScriptStep>>_vars)

RunSpec == Init /\ [][RunNext]_vars /\ RunFairness

\* the session with the steps that wait for nothing taken when they can be:
\* those of a script run and the end of the interactive loop; reading a
\* line waits for the user
LiveSpec == Init /\ [][Next]_vars /\ RunFairness /\ WF_vars(ReplExit)

(* -------------------------------------------- the filesystem API, called *)
(* directly: a client of FileSystem and of the objects it hands out         *)
MaxNodes == 6

\* the paths the client passes to cd (the other calls list theirs)
FsPaths ==
  { <<"/">>, <<".", ".">>, <<".", ".", "/", ".", ".">>,
    <<"h">>, <<"d">>, <<"/", "h", "/", "d">>, <<"/", "t">> }

\* the nested mappings a FileSystem is built from: those of the VFS
\* documents, and one with a name that holds the path separator
TreeDicts ==
  {XmlDict(p) : p \in VfsPaths}
    \cup { << DirEntry(<<"h">>, << FileEntry(<<"a", "/", "b">>, <<"x">>) >>) >> }

\* a FileSystem built by create_file_system, nothing else of a session
FsInit ==
  /\ fs \in {create_file_system(1, tree_root) : tree_root \in TreeDicts}
  /\ reg = NewRegister(1, 1)
  /\ classFs = [t \in CommandTypes |-> None]
  /\ nfs = 1
  /\ is_running = TRUE
  /\ env = EnvInit
  /\ scripts = [p \in ScriptPaths |-> <<>>]
  /\ pc \in {[at |-> "api", i |-> 0, on |-> None]}
  /\ stack = <<>>
  /\ out = <<>>
  /\ last = Step("init", <<>>, <<>>, 0, FALSE, "", NoErr)

\* a call returned or raised: `on` is the Directory a method was called on
\* (None for a call on the FileSystem), n the object that was passed; the
\* client of the objects counts its calls
Returned(act, a, b, on, n, nodes, cwd, err) ==
  /\ fs' = [fs EXCEPT !.nodes = nodes, !.cwd = cwd]
  /\ pc' = [pc EXCEPT !.i = IF pc.at = "obj" THEN pc.i + 1 ELSE 0, !.on = on]
  /\ last' = Step(act, a, b, n, FALSE, "", err)
  /\ out' = <<>>
  /\ UNCHANGED <<reg, classFs, nfs, is_running, env, scripts, stack>>

FsCd ==
  \E path \in FsPaths : \E r \in {cd(fs, path)} :
    Returned("cd", path, <<>>, None, 0, r.fs.nodes, r.fs.cwd, r.err)

FsMkdir ==
  /\ Len(fs.nodes) < MaxNodes
  /\ \E path \in { <<"n">> } : \E r \in {mkdir(fs, path)} :
       Returned("mkdir", path, <<>>, None, 0, r.fs.nodes, r.fs.cwd, r.err)

FsTouch ==
  /\ Len(fs.nodes) < MaxNodes
  /\ \E path \in { <<"n">> } : \E r \in {touch(fs, path)} :
       Returned("touch", path, <<>>, None, 0, r.fs.nodes, r.fs.cwd, r.err)

FsRm ==
  \E path \in { <<"/", "h", "/", "d">>, <<"/", "h", "/", "f">>, <<"d">> } : \E r \in {rm(fs, path)} :
    Returned("rm", path, <<>>, None, 0, r.fs.nodes, r.fs.cwd, r.err)

FsMove ==
  \E from_ \in { <<"/">>, <<"/", "h">>, <<"/", "h", "/", "d">>,
                 <<"/", "h", "/", "f">> },
     to \in { <<"/">>, <<"/", "h", "/", "d">> } :
    \E r \in {move(fs, from_, to)} :
    Returned("move", from_, to, None, 0, r.fs.nodes, r.fs.cwd, r.err)

FsCopy ==
  \E from_ \in { <<"/", "h", "/", "f">>, <<"/", "h">> }, to \in { <<"/">> } :
    \E r \in {copy(fs, from_, to)} :
    Returned("copy", from_, to, None, 0, r.fs.nodes, r.fs.cwd, r.err)

FsNext ==
  \/ FsCd
  \/ FsMkdir
  \/ FsTouch
  \/ FsRm
  \/ FsMove
  \/ FsCopy

FsSpec == FsInit /\ [][FsNext]_vars

(* ------------------- ... with paths that fail the checks of the mutations *)
\* the paths of a client that also passes the empty path, missing parents, a
\* File as parent and names that are taken
ArgPaths ==
  { <<>>, <<"n">>, <<"/", "n">>, <<"/", "z", "/", "n">>, <<"/", "t", "/", "n">> }

ArgCd ==
  \E path \in { <<"/">>, <<"h">> } : \E r \in {cd(fs, path)} :
    Returned("cd", path, <<>>, None, 0, r.fs.nodes, r.fs.cwd, r.err)

ArgMkdir ==
  /\ Len(fs.nodes) < MaxNodes
  /\ \E path \in ArgPaths : \E r \in {mkdir(fs, path)} :
       Returned("mkdir", path, <<>>, None, 0, r.fs.nodes, r.fs.cwd, r.err)

ArgTouch ==
  /\ Len(fs.nodes) < MaxNodes
  /\ \E path \in ArgPaths : \E r \in {touch(fs, path)} :
       Returned("touch", path, <<>>, None, 0, r.fs.nodes, r.fs.cwd, r.err)

ArgRm ==
  \E path \in ArgPaths : \E r \in {rm(fs, path)} :
    Returned("rm", path, <<>>, None, 0, r.fs.nodes, r.fs.cwd, r.err)

ArgMove ==
  \E from_ \in { <<>>, <<"/">>, <<"/", "h", "/", "f">>, <<"/", "z">> },
     to \in { <<>>, <<"/", "h">>, <<"/", "h", "/", "d">>, <<"/", "t">>,
              <<"/", "z">> } :
    \E r \in {move(fs, from_, to)} :
    Returned("move", from_, to, None, 0, r.fs.nodes, r.fs.cwd, r.err)

ArgCopy ==
  \E from_ \in { <<>>, <<"/", "h", "/", "f">>, <<"/", "z">> },
     to \in { <<>>, <<"/", "h">>, <<"/", "h", "/", "f">>, <<"/", "z">> } :
    \E r \in {copy(fs, from_, to)} :
    Returned("copy", from_, to, None, 0, r.fs.nodes, r.fs.cwd, r.err)

ArgNext ==
  \/ ArgCd
  \/ ArgMkdir
  \/ ArgTouch
  \/ ArgRm
  \/ ArgMove
  \/ ArgCopy

\* the FileSystem of the first VFS document
ArgInit == FsInit /\ fs = create_file_system(1, XmlDict(V1))

ArgSpec == ArgInit /\ [][ArgNext]_vars

(* ------------------------------------------ the Environment, called directly *)
\* the mappings an Environment is constructed from
EnvDicts ==
  { <<>>, EnvInit, << [key |-> <<"U">>, value |-> <<"2">>] >>,
    << [key |-> <<"E">>, value |-> <<"2">>], [key |-> <<"X">>, value |-> <<"1">>] >> }

EnvNames == { <<"U">>, <<"E">>, <<"X">> }

EnvValues == { <<>>, <<"1">>, <<"2">> }

\* Environment(from_user), nothing else of a session
EnvSpecInit ==
  /\ env \in EnvDicts
  /\ fs = create_file_system(1, XmlDict(V1))
  /\ reg = NewRegister(1, 1)
  /\ classFs = [t \in CommandTypes |-> None]
  /\ nfs = 1
  /\ is_running = TRUE
  /\ scripts = [p \in ScriptPaths |-> <<>>]
  /\ pc = [at |-> "api", i |-> 0, on |-> None]
  /\ stack = <<>>
  /\ out = <<>>
  /\ last = Step("init", <<>>, <<>>, 0, FALSE, "", NoErr)

\* env.get(var) and env.set(var, value) returned or raised
EnvReturned(act, var, value, e, err) ==
  /\ env' = e
  /\ last' = Step(act, var, value, 0, FALSE, "", err)
  /\ UNCHANGED <<fs, reg, classFs, nfs, is_running, scripts, pc, stack, out>>

EnvGet ==
  \E var \in EnvNames : \E r \in {env_get(env, var)} :
    EnvReturned("get", var, r.val, env, r.err)

EnvSet ==
  \E var \in EnvNames, value \in EnvValues : \E r \in {env_set(env, var, value)} :
    EnvReturned("set", var, value, r.env, r.err)

EnvNext ==
  \/ EnvGet
  \/ EnvSet

EnvSpec == EnvSpecInit /\ [][EnvNext]_vars

(* ------------------------------------------ ... and of the objects themselves *)
MaxCalls == 3

\* the same FileSystem, in the hands of a client that also calls the objects
ObjInit ==
  /\ fs \in {create_file_system(1, XmlDict(p)) : p \in VfsPaths}
  /\ reg = NewRegister(1, 1)
  /\ classFs = [t \in CommandTypes |-> None]
  /\ nfs = 1
  /\ is_running = TRUE
  /\ env = EnvInit
  /\ scripts = [p \in ScriptPaths |-> <<>>]
  /\ pc \in {[at |-> "obj", i |-> 0, on |-> None]}
  /\ stack = <<>>
  /\ out = <<>>
  /\ last = Step("init", <<>>, <<>>, 0, FALSE, "", NoErr)

ObjAddChild ==
  /\ pc.i < MaxCalls
  /\ \E d \in {1, 2}, c \in {2, 4} :
    /\ fs.nodes[d].kind = "dir"
    /\ c # d
    /\ \E r \in {add_child(fs.nodes, d, c)} :
         Returned("add_child", fs.nodes[c].name, <<>>, d, c, r.nodes, fs.cwd, r.err)

ObjRemoveChild ==
  /\ pc.i < MaxCalls
  /\ \E d \in {1, 2}, child_name \in { <<"f">>, <<"t">> } :
    /\ fs.nodes[d].kind = "dir"
    /\ \E r \in {remove_child(fs.nodes, d, child_name)} :
      Returned("remove_child", child_name, <<>>, d, 0, r.nodes, fs.cwd, r.err)

ObjRename ==
  /\ pc.i < MaxCalls
  /\ \E c \in {2, 4}, new_name \in { <<"f">>, <<"t">> } :
    \E r \in {rename(fs.nodes, c, new_name)} :
      Returned("rename", new_name, <<>>, None, c, r.nodes, fs.cwd, r.err)

\* d.clone(new_parent); the client keeps the clone
ObjClone ==
  /\ pc.i < MaxCalls
  /\ Len(fs.nodes) < MaxNodes
  /\ \E d \in {1, 2}, new_parent \in {1, 2, 3, 4} :
    /\ fs.nodes[d].kind = "dir"
    /\ \E r \in {clone(fs.nodes, d, new_parent)} :
         Returned("clone", fs.nodes[d].name, <<>>, d, r.obj, r.nodes, fs.cwd, r.err)

\* f.write(content) on a File of the tree or of a clone
ObjWrite ==
  /\ pc.i < MaxCalls
  /\ \E f \in 1..Len(fs.nodes), content \in { <<>>, <<"z">> } :
    /\ fs.nodes[f].kind = "file"
    /\ \E r \in {write(fs.nodes, f, content)} :
         Returned("write", content, <<>>, None, f, r.nodes, fs.cwd, r.err)

\* the FileSystem calls of the same client
ObjMkdir == pc.i < MaxCalls /\ FsMkdir
ObjTouch == pc.i < MaxCalls /\ FsTouch
ObjMove == pc.i < MaxCalls /\ FsMove
ObjCopy == pc.i < MaxCalls /\ FsCopy

ObjNext ==
  \/ ObjMkdir
  \/ ObjTouch
  \/ ObjMove
  \/ ObjCopy
  \/ ObjAddChild
  \/ ObjRemoveChild
  \/ ObjRename
  \/ ObjClone
  \/ ObjWrite

ObjSpec == ObjInit /\ [][ObjNext]_vars

(* ---------------------------------------------- the XML bridge and export *)
\* the alphabet of Base64, the character at index i + 1 standing for i
B64Chars ==
  << "A", "B", "C", "D", "E", "F", "G", "H", "I", "J", "K", "L", "M", "N", "O",
     "P", "Q", "R", "S", "T", "U", "V", "W", "X", "Y", "Z", "a", "b", "c", "d",
     "e", "f", "g", "h", "i", "j", "k", "l", "m", "n", "o", "p", "q", "r", "s",
     "t", "u", "v", "w", "x", "y", "z", "0", "1", "2", "3", "4", "5", "6", "7",
     "8", "9", "+", "/" >>

\* the characters file texts are written in here and their UTF-8 bytes
CharCodes ==
  << [c |-> "\n", n |-> 10], [c |-> " ", n |-> 32], [c |-> "a", n |-> 97],
     [c |-> "b", n |-> 98], [c |-> "c", n |-> 99], [c |-> "x", n |-> 120],
     [c |-> "y", n |-> 121], [c |-> "z", n |-> 122] >>

\* str.encode("utf-8")
utf8_encode(text) ==
  [i \in 1..Len(text) |->
     CharCodes[CHOOSE k \in 1..Len(CharCodes) : CharCodes[k].c = text[i]].n]

\* bytes.decode("utf-8"): not ok for bytes that are no text
utf8_decode(bytes) ==
  IF \A i \in 1..Len(bytes) : \E k \in 1..Len(CharCodes) : CharCodes[k].n = bytes[i]
  THEN [ok |-> TRUE,
        val |-> [i \in 1..Len(bytes) |->
                   CharCodes[CHOOSE k \in 1..Len(CharCodes) :
                               CharCodes[k].n = bytes[i]].c]]
  ELSE [ok |-> FALSE, val |-> <<>>]

RECURSIVE b64encode(_)
\* base64.b64encode(bytes).decode("utf-8"): three bytes make four
\* characters, a last group of one or two bytes is padded with "="
b64encode(bytes) ==
  IF bytes = <<>> THEN <<>>
  ELSE IF Len(bytes) = 1
  THEN << B64Chars[(bytes[1] \div 4) + 1], B64Chars[((bytes[1] % 4) * 16) + 1],
          "=", "=" >>
  ELSE IF Len(bytes) = 2
  THEN << B64Chars[(bytes[1] \div 4) + 1],
          B64Chars[((bytes[1] % 4) * 16 + bytes[2] \div 16) + 1],
          B64Chars[((bytes[2] % 16) * 4) + 1], "=" >>
  ELSE << B64Chars[(bytes[1] \div 4) + 1],
          B64Chars[((bytes[1] % 4) * 16 + bytes[2] \div 16) + 1],
          B64Chars[((bytes[2] % 16) * 4 + bytes[3] \div 64) + 1],
          B64Chars[(bytes[3] % 64) + 1] >>
       \o b64encode(SubSeq(bytes, 4, Len(bytes)))

\* the value of a Base64 character
B64Val(c) == (CHOOSE k \in 1..64 : B64Chars[k] = c) - 1

RECURSIVE B64Bytes(_)
\* the bytes of the characters before the padding
B64Bytes(q) ==
  IF Len(q) < 2 THEN <<>>
  ELSE IF Len(q) = 2
  THEN << B64Val(q[1]) * 4 + B64Val(q[2]) \div 16 >>
  ELSE IF Len(q) = 3
  THEN << B64Val(q[1]) * 4 + B64Val(q[2]) \div 16,
          (B64Val(q[2]) % 16) * 16 + B64Val(q[3]) \div 4 >>
  ELSE << B64Val(q[1]) * 4 + B64Val(q[2]) \div 16,
          (B64Val(q[2]) % 16) * 16 + B64Val(q[3]) \div 4,
          (B64Val(q[3]) % 4) * 64 + B64Val(q[4]) >>
       \o B64Bytes(SubSeq(q, 5, Len(q)))

\* base64.b64decode(s): characters outside the alphabet are dropped, the
\* rest must come in groups of four; not ok is binascii.Error
b64decode(s) ==
  LET kept == SelectSeq(s, LAMBDA c : c = "=" \/ \E k \in 1..64 : B64Chars[k] = c)
      data == SelectSeq(kept, LAMBDA c : c # "=")
  IN IF Len(kept) % 4 # 0 \/ Len(data) % 4 = 1
     THEN [ok |-> FALSE, val |-> <<>>]
     ELSE [ok |-> TRUE, val |-> B64Bytes(data)]

\* an element of the XML tree: its tag, its name and content attributes
\* and its child elements
Element(tag, name, content, kids) ==
  [tag |-> tag, name |-> name, content |-> content, kids |-> kids]

\* what serialising gives: the child elements, or the error raised
Xml(kids, err) == [kids |-> kids, err |-> err]

RECURSIVE add_children_to_xml(_, _, _, _)
\* FileSystem._add_children_to_xml, from the i-th child of dir_obj on: a
\* file element per File, a folder element per Directory with the elements
\* of its children; the interpreter's recursion limit ends a walk that has
\* no end
add_children_to_xml(nodes, dir_obj, i, fuel) ==
  IF fuel = 0 THEN Xml(<<>>, RecursionError)
  ELSE IF i > Len(nodes[dir_obj].children) THEN Xml(<<>>, NoErr)
  ELSE
    LET name == nodes[dir_obj].children[i].key
        obj  == nodes[dir_obj].children[i].id
        own  == IF nodes[obj].kind = "file" THEN Xml(<<>>, NoErr)
                ELSE add_children_to_xml(nodes, obj, 1, fuel - 1)
        rest == add_children_to_xml(nodes, dir_obj, i + 1, fuel)
    IN IF own.err # NoErr THEN own
       ELSE IF rest.err # NoErr THEN rest
       ELSE Xml(<< IF nodes[obj].kind = "file"
                   THEN Element("file", name,
                                b64encode(utf8_encode(nodes[obj].content)), <<>>)
                   ELSE Element("folder", name, <<>>, own.kids) >>
                \o rest.kids, NoErr)

\* FileSystem.to_xml_element: the children of the filesystem element
to_xml_element(f) == add_children_to_xml(f.nodes, f.root, 1, Len(f.nodes) + 1)

\* result[name] = value on a mapping kept in insertion order
DictPut(m, e) ==
  IF \E i \in 1..Len(m) : m[i].name = e.name
  THEN [m EXCEPT ![CHOOSE i \in 1..Len(m) : m[i].name = e.name] = e]
  ELSE Append(m, e)

\* a bridge that takes the content attribute for the text
xml_file_text_Raw(content_b64) == content_b64

\* XmlClient.xml_to_dict, a file element: the decoded text, the attribute
\* itself when it does not decode
xml_file_text(content_b64) ==
  LET bytes == b64decode(content_b64) IN
  IF bytes.ok /\ utf8_decode(bytes.val).ok THEN utf8_decode(bytes.val).val
  ELSE content_b64

RECURSIVE xml_to_dict(_)
\* XmlClient.xml_to_dict on the children of the root or of a folder
\* element: a mapping for a folder, the text for a file, children without
\* a name skipped
xml_to_dict(kids) ==
  IF kids = <<>> THEN <<>>
  ELSE LET child == kids[Len(kids)]
           before == xml_to_dict(SubSeq(kids, 1, Len(kids) - 1))
       IN IF child.name = <<>> THEN before
          ELSE IF child.tag = "folder"
          THEN DictPut(before, DirEntry(child.name, xml_to_dict(child.kids)))
          ELSE DictPut(before, FileEntry(child.name, xml_file_text(child.content)))

\* the contents a client writes to a File
XmlTexts == { <<"a", "b">>, <<"x", "y", "z">>, <<"a", "\n", "b", " ">> }

\* a client's File.write on the File /h/f
XmlWrite ==
  \E path \in { <<"/", "h", "/", "f">> }, text \in XmlTexts :
    /\ find(fs, path, fs.root) # None
    /\ ~IsDirectory(fs.nodes, find(fs, path, fs.root))
    /\ \E r \in {write(fs.nodes, find(fs, path, fs.root), text)} :
         Returned("write", path, text, None, find(fs, path, fs.root),
                  r.nodes, fs.cwd, r.err)

\* a client exports the FileSystem and builds a new one from the export:
\* FileSystem({"/": xml_to_dict(fs.to_xml_element())}).create_file_system();
\* the client goes on with the new FileSystem
XmlRoundTrip ==
  /\ nfs < MaxFs
  /\ \E x \in {to_xml_element(fs)} :
       /\ fs' = IF x.err # NoErr THEN fs
                ELSE create_file_system(nfs + 1, xml_to_dict(x.kids))
       /\ nfs' = IF x.err # NoErr THEN nfs ELSE nfs + 1
       /\ last' = Step("roundtrip", <<>>, <<>>, 0, FALSE, "", x.err)
  /\ out' = <<>>
  /\ UNCHANGED <<reg, classFs, is_running, env, scripts, pc, stack>>

XmlNext ==
  \/ FsMkdir
  \/ FsTouch
  \/ FsRm
  \/ FsMove
  \/ XmlWrite
  \/ XmlRoundTrip

XmlSpec == ArgInit /\ [][XmlNext]_vars

(* ------------------------------- the commands that read a file, executed *)
(* directly on a file of a given text                                       *)
MaxText == 3

TextChars == {"a", " ", "\n"}

\* a file of twelve lines
LongText ==
  Join(<< <<"0">>, <<"1">>, <<"2">>, <<"3">>, <<"4">>, <<"5">>, <<"6">>,
          <<"7">>, <<"8">>, <<"9">>, <<"a">>, <<"b">> >>, "\n")

\* the texts the file may hold
Texts == UNION {[1..n -> TextChars] : n \in 0..MaxText} \cup {LongText}

\* a FileSystem whose root holds the one File t
TextInit ==
  /\ \E text \in Texts :
       fs = create_file_system(1, << FileEntry(<<"t">>, text) >>)
  /\ reg = NewRegister(1, 1)
  /\ classFs = [t \in CommandTypes |-> None]
  /\ nfs = 1
  /\ is_running = TRUE
  /\ env = EnvInit
  /\ scripts = [p \in ScriptPaths |-> <<>>]
  /\ pc = [at |-> "api", i |-> 0, on |-> None]
  /\ stack = <<>>
  /\ out = <<>>
  /\ last = Step("init", <<>>, <<>>, 0, FALSE, "", NoErr)

WcFlags == { <<"-", "I">>, <<"-", "w">>, <<"-", "m">>, <<"-", "L">> }

\* the flags of a wc call in the order given: up to three of the four,
\* each once
WcFlagSeqs ==
  UNION {{q \in [1..n -> WcFlags] : \A i, j \in 1..n : q[i] = q[j] => i = j} :
         n \in 0..3}

\* the argument lists of the wc calls: the flags and then the path, the
\* four flags, a flag given twice, flags after the path
WcArgs ==
  { q \o << <<"t">> >> : q \in WcFlagSeqs }
  \cup { << <<"-", "L">>, <<"-", "m">>, <<"-", "I">>, <<"-", "w">>, <<"t">> >>,
         << <<"-", "w">>, <<"-", "w">>, <<"t">> >>,
         << <<"t">>, <<"-", "w">> >>,
         << <<"-", "L">>, <<"t">>, <<"-", "I">> >> }

\* the command executed: what it printed and what it raised
Executed(act, args, type, e) ==
  /\ fs' = e.fs
  /\ out' = e.outs
  /\ last' = Step(act, Words(args), <<>>, 0, FALSE, type, e.err)
  /\ UNCHANGED <<reg, classFs, nfs, is_running, env, scripts, pc, stack>>

\* WcCommand.execute(args)
TextWc ==
  \E args \in WcArgs :
    Executed("wc", args, "WcCommand", WcCommand_execute(fs, args))

\* the values given to head's -n
HeadCounts ==
  { <<"0">>, <<"-", "5">>, <<"-", "0">>, <<"1">>, <<"2">>, <<"3">>, <<"5">>,
    <<"1", "0">>, <<"1", "1">>, <<"1", "2">>, <<"1", "3">> }

\* HeadCommand.execute(["t"]) and HeadCommand.execute(["-n", k, "t"])
TextHead ==
  \E args \in { << <<"t">> >> }
              \cup { << <<"-", "n">>, k, <<"t">> >> : k \in HeadCounts } :
    Executed("head", args, "HeadCommand", HeadCommand_execute(fs, args))

TextNext ==
  \/ TextWc
  \/ TextHead

TextSpec == TextInit /\ [][TextNext]_vars

(* ------------------------------------------------------------- properties *)
\* the command token of a line, <<>> for a blank line
FirstToken(line) ==
  IF SplitWs(line) = <<>> THEN <<>> ELSE Head(SplitWs(line))

\* a script line that ScriptRunner.run skips
Skipped(line) == line = <<>> \/ StartsWith(line, "#")

\* the step routed a line `sc --vfs v --script sp`
RoutedSc(v, sp) == last'.routed /\ last'.line = ScLine(v, sp)

\* nothing of the session changes and no ScriptRunner is started
SessionKept ==
  /\ UNCHANGED <<fs, reg, classFs, nfs, env, scripts>>
  /\ Len(stack') <= Len(stack)

\* the mapping of a registry: its names with their types
Mapping(r) == {r.commands[i] : i \in 1..Len(r.commands)}

\* C1: when routing line n of a script raises an error, ScriptRunner.run
\* prints "Error on line n: <message>", n being the 1-based position of the
\* line in the file with blank and comment lines counted, the run goes on
\* with line n + 1, and as long as is_running is true the next line of the
\* file is the one handled next: routed unless it is blank or a comment.
C1_BestEffort ==
  /\ [] ((last.act = "script" /\ last.err # NoErr) =>
           /\ Strip(scripts[last.file][last.n]) = last.line
           /\ out # <<>>
           /\ out[Len(out)] = <<"Error on line ">> \o ToStr(last.n)
                              \o <<": ">> \o last.err.text
           /\ is_running
           /\ stack # <<>>
           /\ Top = [file |-> last.file, i |-> last.n + 1])
  /\ [][ (/\ stack # <<>>
          /\ is_running
          /\ Top.file \in ScriptPaths
          /\ Top.i <= Len(scripts[Top.file]))
         => (/\ last'.act = "script"
             /\ last'.file = Top.file
             /\ last'.n = Top.i
             /\ last'.line = Strip(scripts[Top.file][Top.i])
             /\ last'.routed = ~Skipped(last'.line)) ]_vars

\* C1 witness: the unknown command on line 4 of a script, after a blank line
\* and a comment line, has been reported and the session is still running
C1_Witness ==
  /\ last.act = "script"
  /\ last.n = 4
  /\ last.err.cls = "UnknownCommandName"
  /\ Skipped(Strip(scripts[last.file][2]))
  /\ Skipped(Strip(scripts[last.file][3]))
  /\ out[Len(out)] = <<"Error on line ", "4", ": ", "Unknown command: ", "z", "z">>
  /\ is_running

\* C2: once is_running is false, a ScriptRunner.run in progress handles no
\* further line: nothing is echoed, nothing is routed, the run returns, and
\* the FileSystem (tree and cursor) and the registry stay as they are.
C2_NoLineAfterExit ==
  [][ (stack # <<>> /\ ~is_running)
      => (/\ last'.act \in {"script_break", "script_end"}
          /\ ~last'.routed
          /\ out' = <<>>
          /\ fs' = fs
          /\ reg' = reg
          /\ ~is_running'
          /\ stack' = Pop) ]_vars

\* C2 witness: a script stopped before its line 7, `cd /`, because line 6
\* was `exit`; the cursor is where `cd h` and `cd d` left it
C2_Witness ==
  /\ last.act = "script_break"
  /\ last.n = 7
  /\ FirstToken(scripts[last.file][6]) = s_exit
  /\ ~is_running
  /\ pwd(fs) = <<"/", "h", "/", "d">>

\* C3: an error raised by routing a line in InteractiveRunner.run is printed
\* and neither ends the loop nor changes is_running; the loop ends only when
\* is_running is false, or when reading the input is interrupted, and then
\* is_running is still true.
C3_InteractiveLoop ==
  /\ [][ (last'.act = "repl" /\ last'.err # NoErr)
         => (/\ pc' = pc
             /\ is_running' = is_running
             /\ out' # <<>>
             /\ out'[Len(out')] = last'.err.text) ]_vars
  /\ [][ (pc.at = "repl" /\ pc'.at # "repl")
         => (/\ pc'.at = "done"
             /\ \/ last'.act = "repl_exit" /\ ~is_running /\ ~is_running'
                \/ last'.act = "repl_interrupt" /\ is_running') ]_vars

\* C3 witness: a line typed at the prompt raised an error that is not the
\* unknown command, the error was printed and the loop is still reading
C3_Witness ==
  /\ last.act = "repl"
  /\ last.err.cls \notin {"none", "UnknownCommandName"}
  /\ out = << last.err.text >>
  /\ pc.at = "repl"
  /\ is_running

\* C4: routing a line whose first token is `exit` sets is_running to false
\* and changes nothing else (FileSystem, registry, class stamps,
\* environment), whatever tokens follow; no command is instantiated and no
\* error is raised, even when a command is registered under the name exit.
C4_ExitOnly ==
  [][ (last'.routed /\ FirstToken(last'.line) = s_exit)
      => (/\ ~is_running'
          /\ SessionKept
          /\ last'.ran = ""
          /\ last'.err = NoErr) ]_vars

\* C4 witness: `exit now` was routed while a command was registered under
\* the name exit
C4_Witness ==
  /\ last.routed
  /\ last.line = Words(<<s_exit, <<"n", "o", "w">> >>)
  /\ HasCommand(reg, s_exit)
  /\ ~is_running

C6_ScSwaps ==
  [][ \A v \in VfsPaths, sp \in ScriptPaths :
        RoutedSc(v, sp)
        => (/\ last'.err = NoErr
            /\ fs'.id \notin 1..nfs
            /\ fs' = create_file_system(fs'.id, XmlDict(v))
            /\ fs'.cwd = fs'.root
            /\ reg'.id \notin 1..nfs
            /\ reg'.fs = fs'.id
            /\ stack' # <<>>
            /\ stack'[Len(stack')] = [file |-> sp, i |-> 1]) ]_vars

\* C6 witness: `sc --vfs v2 --script s2` typed at the prompt replaced the
\* FileSystem by the one of v2, whose root holds d and ab
C6_Witness ==
  /\ last.act = "repl"
  /\ last.line = ScLine(V2, S2)
  /\ fs.id = 2
  /\ reg.id = 2
  /\ ChildNames(fs.nodes, fs.cwd) = << <<"d">>, <<"a", "b">> >>
  /\ Top = [file |-> S2, i |-> 1]

\* C7 as stated: when the --vfs file or the --script file does not exist,
\* sc raises the not-found error (FileExistsError) and the session is
\* unchanged.
C7_Original ==
  [][ \A v \in VfsPaths \cup ScriptPaths \cup {NoFile},
         sp \in ScriptPaths \cup {NoFile} :
        (RoutedSc(v, sp) /\ (~os_path_exists(v) \/ ~os_path_exists(sp)))
        => (/\ last'.err.cls = "FileExistsError"
            /\ SessionKept
            /\ is_running' = is_running) ]_vars

\* C7 amended: when the --vfs file does not exist sc raises the not-found
\* error "VFS not found..."; when the --vfs file exists and loads and the
\* --script file does not exist sc raises the not-found error "Script not
\* found..."; the VFS is loaded before the script is looked for, so a --vfs
\* file that exists and is no VFS document raises the loader's error.  In
\* each of these cases the session is unchanged and no script is started.
C7_ScNotFound ==
  [][ \A v \in VfsPaths \cup ScriptPaths \cup {NoFile},
         sp \in ScriptPaths \cup {NoFile} :
        (RoutedSc(v, sp) /\ (v \notin VfsPaths \/ ~os_path_exists(sp)))
        => (/\ last'.err =
                 IF ~os_path_exists(v)
                 THEN Exc("FileExistsError",
                          <<"VFS not found. Check your path to VFS.">>)
                 ELSE IF v \notin VfsPaths
                 THEN Exc("ParseError", <<"syntax error">>)
                 ELSE Exc("FileExistsError",
                          <<"Script not found. Check your path to script.">>)
            /\ SessionKept
            /\ is_running' = is_running) ]_vars

\* C7 witness: `sc --vfs v1 --script no` typed at the prompt of a session
\* whose cursor had left the root raised "Script not found..."
C7_Witness ==
  /\ last.act = "repl"
  /\ last.line = ScLine(V1, NoFile)
  /\ last.err.text = <<"Script not found. Check your path to script.">>
  /\ fs.id = 1
  /\ fs.cwd # fs.root
  /\ stack = <<>>

\* C8: after a successful sc the new registry holds exactly the names of
\* the invoking registry, each with the same command type, and no later
\* step of the session changes the mapping.
C8_CommandsCopied ==
  /\ [][ \A v \in VfsPaths, sp \in ScriptPaths :
           RoutedSc(v, sp)
           => (/\ reg'.id # reg.id
               /\ Mapping(reg') = Mapping(reg)
               /\ Len(reg'.commands) = Len(reg.commands)) ]_vars
  /\ [][ pc.at # "main" => Mapping(reg') = Mapping(reg) ]_vars

\* C8 witness: a registry created by sc holds main's seven commands and the
\* command a client had registered under the name exit
C8_Witness ==
  /\ reg.id > 1
  /\ Len(reg.commands) = Len(MainCommands) + 1
  /\ HasCommand(reg, s_exit)
  /\ \A i \in 1..Len(MainCommands) :
       /\ HasCommand(reg, MainCommands[i].name)
       /\ CommandAt(reg, MainCommands[i].name) = MainCommands[i].type

\* C9: Register.register of a name already registered raises ValueError
\* "Command <name> already registered" and leaves the mapping as it is;
\* Register.get and Register.execute of a name not registered raise
\* ValueError "Command <name> not found", instantiate no command and
\* change nothing.
C9_RegisterErrors ==
  /\ [][ (last'.act = "register" /\ HasCommand(reg, last'.line))
         => (/\ last'.err = Exc("ValueError", <<"Command ">> \o last'.line
                                              \o <<" already registered">>)
             /\ reg' = reg
             /\ classFs' = classFs) ]_vars
  /\ [][ (last'.act \in {"get", "execute"} /\ ~HasCommand(reg, last'.line))
         => (/\ last'.err = Exc("ValueError", <<"Command ">> \o last'.line
                                              \o <<" not found">>)
             /\ last'.ran = ""
             /\ out' = <<>>
             /\ UNCHANGED Session) ]_vars

\* C9 witness: a client's register("cd", LsCommand) after main's own was
\* refused and cd is still the CdCommand
C9_Witness ==
  /\ pc.at = "main"
  /\ last.act = "register"
  /\ last.line = t_cd
  /\ last.err.cls = "ValueError"
  /\ CommandAt(reg, t_cd) = "CdCommand"

\* C10: is_running starts true; it changes only from true to false, and
\* only in a step that routes a line whose first token is exit.
C10_RunningFlag ==
  /\ is_running = TRUE
  /\ [][ is_running' # is_running
         => (/\ is_running
             /\ ~is_running'
             /\ last'.routed
             /\ FirstToken(last'.line) = s_exit) ]_vars

\* C10 witness: the session was stopped by the exit of a script that sc had
\* started, after errors and a swap, and the interactive loop has ended
C10_Witness ==
  /\ ~is_running
  /\ fs.id > 1
  /\ pc.at = "done"
  /\ last.act = "repl_exit"

(* ------------------------------------------- properties of the filesystem *)
\* the objects in a Directory's child mapping
Kids(nodes, d) == {nodes[d].children[i].id : i \in 1..Len(nodes[d].children)}

RECURSIVE Closure(_, _)
\* the objects reached from the set S through child mappings
Closure(nodes, S) ==
  With(S \cup UNION {Kids(nodes, d) : d \in S}, LAMBDA T :
    IF T = S THEN S ELSE Closure(nodes, T))

\* the objects reachable from the root, the root included
FromRoot(f) == Closure(f.nodes, {f.root})

\* C11: in every state reached by cd, mkdir, touch, rm, move and copy on a
\* built filesystem, the cursor is a Directory that is reachable from the
\* root through child mappings (the root itself included).
C11_CwdReachable ==
  /\ IsDirectory(fs.nodes, fs.cwd)
  /\ fs.cwd \in FromRoot(fs)

\* the objects a client can still get at: from the root or from the cursor
Live(f) == Closure(f.nodes, {f.root, f.cwd})

\* C12: in every state reached by mkdir, touch, rm, move and copy the root
\* Directory is named "/", has no parent and is in no child mapping, and no
\* object is its own ancestor: every parent chain ends, so that
\* get_absolute_path terminates.
C12_Tree ==
  /\ fs.nodes[fs.root].name = <<"/">>
  /\ fs.nodes[fs.root].parent = None
  /\ \A d \in Live(fs) : fs.root \notin Kids(fs.nodes, d)
  /\ \A n \in Live(fs) : ~Loops(fs.nodes, n)

\* C13: for every Directory D and every entry (k, C) of D's child mapping,
\* k equals C.name and D.get_child(C.name) is C, in every state reached by
\* add_child, remove_child, rename, mkdir, touch, move and copy.
C13_KeysAreNames ==
  \A d \in Live(fs) : \A i \in 1..Len(fs.nodes[d].children) :
    /\ fs.nodes[d].children[i].key = fs.nodes[fs.nodes[d].children[i].id].name
    /\ get_child(fs.nodes, d, fs.nodes[fs.nodes[d].children[i].id].name)
         = [obj |-> fs.nodes[d].children[i].id, err |-> NoErr]

\* the step was a successful D.add_child(c): called by the client, or by move
AddChildDone(D, c) ==
  /\ last'.err = NoErr
  /\ \/ last'.act = "add_child" /\ D = pc'.on /\ c = last'.n
     \/ /\ last'.act = "move"
        /\ D = find(fs, last'.file, fs.root)
        /\ c = find(fs, last'.line, fs.root)

\* the Directories that hold the object in their child mapping
Holders(nodes, n) == {E \in 1..Len(nodes) : n \in Kids(nodes, E)}

\* C14: after D.add_child(c) succeeds, c.parent is D, c is in D's child
\* mapping and in no other Directory's child mapping, and no object other
\* than c has been removed from any mapping; each object reachable from the
\* root (the root aside) is held by exactly one Directory, its parent.
C14_AddChild ==
  [][\A D, c \in 1..Len(fs.nodes) : AddChildDone(D, c) =>
       /\ fs'.nodes[c].parent = D
       /\ Holders(fs'.nodes, c) = {D}
       /\ \A E \in 1..Len(fs.nodes) :
            Kids(fs.nodes, E) \ {c} \subseteq Kids(fs'.nodes, E)
       /\ \A n \in FromRoot(fs') \ {fs.root} :
            Holders(fs'.nodes, n) = {fs'.nodes[n].parent}]_vars

\* C15: for every tree built by create_file_system from a nested mapping
\* and every object n in it (the root, directories, files),
\* find(n.get_absolute_path()) returns n itself.
C15_FindOwnPath ==
  last.act = "init" =>
    \A n \in 1..Len(fs.nodes) :
      find(fs, get_absolute_path(fs.nodes, n), fs.root) = n

\* C16: cd("..") sets the cursor to the cursor's parent whenever the cursor
\* has a parent, and fails with the ValueError "Already at root directory",
\* the cursor unchanged, exactly when the cursor has no parent; in every
\* reachable state, after rm and move too.
C16_CdParent ==
  [][last'.act = "cd" /\ last'.line = <<".", ".">> =>
       IF fs.nodes[fs.cwd].parent # None
       THEN last'.err = NoErr /\ fs'.cwd = fs.nodes[fs.cwd].parent
       ELSE /\ last'.err = Exc("ValueError", <<"Already at root directory">>)
            /\ fs'.cwd = fs.cwd]_vars

\* what a path names: an absolute path from the root, any other from the cursor
Resolve(f, path) ==
  IF StartsWith(path, "/") THEN find(f, path, f.root) ELSE find(f, path, f.cwd)

\* the outcome of cd(path) for a given resolved object
CdOutcome(target) ==
  IF IsDirectory(fs.nodes, target)
  THEN /\ last'.err = NoErr
       /\ fs' = [fs EXCEPT !.cwd = target]
       /\ ~Loops(fs.nodes, target) => pwd(fs') = get_absolute_path(fs.nodes, target)
  ELSE /\ fs' = fs
       /\ last'.err.cls = IF target # None THEN "NotADirectoryError"
                                          ELSE "FileNotFoundError"

\* the step was cd(path) with a path other than "..", "." and "/"
CdByPath ==
  /\ last'.act = "cd"
  /\ last'.line \notin { <<".", ".">>, <<".">>, <<"/">> }

\* the cursor's absolute path exists and names the cursor
CursorOnPath ==
  /\ ~Loops(fs.nodes, fs.cwd)
  /\ find(fs, pwd(fs), fs.root) = fs.cwd

CdRouted ==
  /\ last'.routed
  /\ last'.ran = "CdCommand"
  /\ Len(SplitWs(last'.line)) = 2

\* the path argument of the routed line
CdPath == SplitWs(last'.line)[2]

\* what a runner prints before it routes the line
Echo == IF last'.act = "script" THEN << get_prompt(fs) \o last'.line >> ELSE <<>>

\* C18: the cd command never lets the ValueError, FileNotFoundError or
\* NotADirectoryError of FileSystem.cd reach the runner: it prints
\* "cd: <message>", and after the failed navigation the cursor, the tree
\* and is_running are what they were.
C18_CdCatches ==
  [][CdRouted /\ cd(fs, CdPath).err.cls \in
                  {"ValueError", "FileNotFoundError", "NotADirectoryError"}
       => /\ last'.err = NoErr
          /\ out' = Echo \o << <<"cd: ">> \o cd(fs, CdPath).err.text >>
          /\ fs' = fs
          /\ is_running' = is_running
          /\ pc'.at # "crashed"]_vars

\* C18 witness: `cd t` was typed with the cursor at the root, where t is
\* a File, and the message was printed
C18_Witness ==
  /\ last.act = "repl"
  /\ last.line = Words(<<t_cd, <<"t">> >>)
  /\ last.err = NoErr
  /\ cd(fs, <<"t">>).err.cls = "NotADirectoryError"
  /\ out = << <<"cd: ", "Path '", "/", "t", "' is not a directory">> >>
  /\ is_running = TRUE

\* C19: `cd ../..` goes up two levels: with the cursor at a directory of
\* depth 2 or more, after the line is routed the cursor is the grandparent
\* of the previous cursor.
C19_CdUpTwo ==
  [][(/\ CdRouted
      /\ CdPath = <<".", ".", "/", ".", ".">>
      /\ fs.nodes[fs.cwd].parent # None
      /\ fs.nodes[fs.nodes[fs.cwd].parent].parent # None)
       => /\ last'.err = NoErr
          /\ fs'.cwd = fs.nodes[fs.nodes[fs.cwd].parent].parent]_vars

(* --------------------------------------------------- properties of move *)
\* the step was a successful move of the object c into the Directory D
MoveDone(D, c) ==
  /\ last'.act = "move"
  /\ last'.err = NoErr
  /\ c = find(fs, last'.line, fs.root)
  /\ D = find(fs, last'.file, fs.root)

\* after the step c is a child of D under its own name, D is its parent, its
\* old parent holds it no more, and c and all below it are as before
Moved(D, c) ==
  /\ Contains(fs'.nodes, D, fs.nodes[c].name)
  /\ ChildAt(fs'.nodes, D, fs.nodes[c].name) = c
  /\ fs'.nodes[c].parent = D
  /\ fs.nodes[c].parent # None => c \notin Kids(fs'.nodes, fs.nodes[c].parent)
  /\ [fs'.nodes[c] EXCEPT !.parent = fs.nodes[c].parent] = fs.nodes[c]
  /\ \A n \in Closure(fs.nodes, {c}) \ {c} : fs'.nodes[n] = fs.nodes[n]

\* C20 as stated: after move(from, to) succeeds, the object that `from`
\* resolved to is a child of the Directory that `to` resolved to, under its
\* own name and with that Directory as parent, it is no longer in its old
\* parent's child mapping, and its own subtree is unchanged.
C20_Original ==
  [][\A D, c \in 1..Len(fs.nodes) : MoveDone(D, c) => Moved(D, c)]_vars

\* C20, amended: the same for every successful move whose destination is
\* not the moved object itself or a Directory below it.
C20_Move ==
  [][\A D, c \in 1..Len(fs.nodes) :
       MoveDone(D, c) /\ D \notin Closure(fs.nodes, {c}) => Moved(D, c)]_vars

\* C20 witness: the Directory /h/d, which holds n, was moved to the root
C20_Witness ==
  /\ last.act = "move"
  /\ last.line = <<"/", "h", "/", "d">>
  /\ last.file = <<"/">>
  /\ last.err = NoErr
  /\ find(fs, <<"/", "d", "/", "n">>, fs.root) # None
  /\ find(fs, <<"/", "h", "/", "d">>, fs.root) = None

RECURSIVE SameTree(_, _, _, _)
\* objects a and b have the same kind, name and content and, child by child
\* in the order of their mappings, the same trees below them
SameTree(nodes, a, b, fuel) ==
  /\ fuel > 0
  /\ nodes[a].kind = nodes[b].kind
  /\ nodes[a].name = nodes[b].name
  /\ nodes[a].content = nodes[b].content
  /\ Len(nodes[a].children) = Len(nodes[b].children)
  /\ \A i \in 1..Len(nodes[a].children) :
       SameTree(nodes, nodes[a].children[i].id, nodes[b].children[i].id, fuel - 1)

\* b is a deep clone of a: the same tree, made of other objects
DeepClone(nodes, a, b) ==
  /\ SameTree(nodes, a, b, Len(nodes))
  /\ Closure(nodes, {a}) \cap Closure(nodes, {b}) = {}

\* the step is a successful copy of object c into Directory D
CopyDone(D, c) ==
  /\ last'.act = "copy"
  /\ last'.err = NoErr
  /\ c = find(fs, last'.line, fs.root)
  /\ D = find(fs, last'.file, fs.root)

\* after the step D holds, under c's name, a deep clone of c, and c, all
\* below it and the mappings that hold c are as before
Copied(D, c) ==
  /\ Contains(fs'.nodes, D, fs.nodes[c].name)
  /\ DeepClone(fs'.nodes, c, ChildAt(fs'.nodes, D, fs.nodes[c].name))
  /\ \A n \in Closure(fs.nodes, {c}) : fs'.nodes[n] = fs.nodes[n]
  /\ \A d \in 1..Len(fs.nodes) :
       c \in Kids(fs.nodes, d) <=> c \in Kids(fs'.nodes, d)

\* C21: after copy(from, to) succeeds, the Directory that `to` resolved to
\* has a child with the source's name that is a deep clone of the source
\* (other objects, same names and file contents), and the source, its
\* subtree and its place in the tree are unchanged.
C21_Copy ==
  [][\A D, c \in 1..Len(fs.nodes) : CopyDone(D, c) => Copied(D, c)]_vars

\* C22: when Directory.clone returns, the clone is a tree structurally
\* identical to the source (same names, same file contents, same nesting),
\* none of its objects is an object of the source, and the objects that
\* existed before are as they were; writing a File's content, in a clone or
\* in the original, changes no other object.
C22_CloneDeep ==
  [][/\ last'.act = "clone" /\ last'.err = NoErr =>
          /\ last'.n \notin 1..Len(fs.nodes)
          /\ DeepClone(fs'.nodes, pc'.on, last'.n)
          /\ \A n \in 1..Len(fs.nodes) : fs'.nodes[n] = fs.nodes[n]
     /\ last'.act = "write" =>
          \A n \in 1..Len(fs.nodes) : n # last'.n => fs'.nodes[n] = fs.nodes[n]
    ]_vars

\* C22 witness: a File of a clone (a Directory that is held by no child
\* mapping and shares no object with Directory s) was written, and the File
\* of the same name in s has kept another content
C22_Witness ==
  /\ last.act = "write"
  /\ last.err = NoErr
  /\ \E s, c \in 1..Len(fs.nodes) :
       /\ fs.nodes[s].kind = "dir"
       /\ fs.nodes[c].kind = "dir"
       /\ c # fs.root
       /\ \A d \in 1..Len(fs.nodes) : c \notin Kids(fs.nodes, d)
       /\ Closure(fs.nodes, {s}) \cap Closure(fs.nodes, {c}) = {}
       /\ last.n \in Kids(fs.nodes, c)
       /\ \E g \in Kids(fs.nodes, s) :
            /\ fs.nodes[g].name = fs.nodes[last.n].name
            /\ fs.nodes[g].content # fs.nodes[last.n].content

\* the Directory that holds the last segment of path: the cursor for a path
\* of one segment, what the other segments name from the root otherwise
ParentOf(f, path) ==
  With(PathParts(path), LAMBDA parts :
    IF Len(parts) = 1 THEN f.cwd
    ELSE find(f, Join(SubSeq(parts, 1, Len(parts) - 1), "/"), f.root))

LeafOf(path) == PathParts(path)[Len(PathParts(path))]

\* the error kinds of the preconditions that path fails as the path of
\* mkdir, touch or rm: empty path, parent not found, parent not a Directory
PathFaults(f, path) ==
  IF PathParts(path) = <<>> THEN {"ValueError"}
  ELSE IF ParentOf(f, path) = None THEN {"FileNotFoundError"}
  ELSE IF ~IsDirectory(f.nodes, ParentOf(f, path)) THEN {"NotADirectoryError"}
  ELSE {}

\* the error kinds of the preconditions of move and copy that the two paths
\* fail
PairFaults(f, a, b) ==
  (IF a = <<>> \/ b = <<>> \/ a = b THEN {"ValueError"} ELSE {})
  \cup (IF \/ a # <<>> /\ find(f, a, f.root) = None
           \/ b # <<>> /\ find(f, b, f.root) = None
        THEN {"FileNotFoundError"} ELSE {})
  \cup (IF b # <<>> /\ find(f, b, f.root) # None
             /\ ~IsDirectory(f.nodes, find(f, b, f.root))
        THEN {"NotADirectoryError"} ELSE {})
  \cup (IF /\ a # <<>> /\ find(f, a, f.root) # None
           /\ b # <<>> /\ IsDirectory(f.nodes, find(f, b, f.root))
           /\ Contains(f.nodes, find(f, b, f.root),
                       f.nodes[find(f, a, f.root)].name)
        THEN {"FileExistsError"} ELSE {})

\* the error kinds of the preconditions that the call act(a, b) fails in f
Faults(f, act, a, b) ==
  IF act \in {"move", "copy"} THEN PairFaults(f, a, b)
  ELSE IF act \notin {"mkdir", "touch", "rm"} THEN {}
  ELSE IF PathFaults(f, a) # {} THEN PathFaults(f, a)
  ELSE IF act = "rm"
  THEN (IF Contains(f.nodes, ParentOf(f, a), LeafOf(a)) THEN {}
        ELSE {"FileNotFoundError"})
  ELSE IF Contains(f.nodes, ParentOf(f, a), LeafOf(a)) THEN {"FileExistsError"}
  ELSE {}

\* the Directory whose absolute path the message of the failure reads
Named(f, act, a, b) ==
  IF act \in {"move", "copy"} THEN find(f, b, f.root) ELSE ParentOf(f, a)

\* C23 as stated: a mkdir, touch, rm, move or copy that fails a
\* precondition (empty path, equal paths, parent, source or destination not
\* found, parent or destination not a Directory, name taken, target absent)
\* raises an error of the kind of a failed precondition, and the tree and
\* the cursor are as before the call.
C23_Original ==
  [][Faults(fs, last'.act, last'.line, last'.file) # {} =>
       /\ last'.err.cls \in Faults(fs, last'.act, last'.line, last'.file)
       /\ fs' = fs]_vars

\* C23, amended: the same, except that the call ends in RecursionError when
\* the failure is a taken name or an absent target and the Directory named
\* in the message lies on a parent cycle; the tree and the cursor are as
\* before the call in every case.
C23_FailFast ==
  [][Faults(fs, last'.act, last'.line, last'.file) # {} =>
       /\ fs' = fs
       /\ \/ last'.err.cls \in Faults(fs, last'.act, last'.line, last'.file)
          \/ /\ last'.err = RecursionError
             /\ Faults(fs, last'.act, last'.line, last'.file)
                  \in { {"FileExistsError"}, {"FileNotFoundError"} }
             /\ Loops(fs.nodes, Named(fs, last'.act, last'.line, last'.file))
       /\ ~Loops(fs.nodes, Named(fs, last'.act, last'.line, last'.file))
            => last'.err.cls \in Faults(fs, last'.act, last'.line, last'.file)
    ]_vars

\* C23 witness: with the cursor away from the root and a node created, a
\* move failed because the destination holds the source's name
C23_Witness ==
  /\ last.act = "move"
  /\ last.err.cls = "FileExistsError"
  /\ fs.cwd # fs.root
  /\ Len(fs.nodes) > 5

\* C24: after mkdir(path) or touch(path) succeeds, find(path) gives an object
\* that did not exist before the call: an empty Directory for mkdir, an empty
\* File for touch, named by the last segment of path (so exists(path) is
\* true), for every path and every cursor position.
C24_Created ==
  [][last'.act \in {"mkdir", "touch"} /\ last'.err = NoErr =>
       With(find(fs', last'.line, fs'.root), LAMBDA o :
         /\ o # None
         /\ o \notin 1..Len(fs.nodes)
         /\ fs'.nodes[o].kind = (IF last'.act = "mkdir" THEN "dir" ELSE "file")
         /\ fs'.nodes[o].children = <<>>
         /\ fs'.nodes[o].content = <<>>
         /\ fs'.nodes[o].name = LeafOf(last'.line))]_vars

\* object x is found at its own absolute path in f
AtOwnPath(f, x) ==
  /\ ~Loops(f.nodes, x)
  /\ find(f, get_absolute_path(f.nodes, x), f.root) = x

\* the objects at and below what path names in f
Below(f, path) ==
  IF find(f, path, f.root) = None THEN {}
  ELSE Closure(f.nodes, {find(f, path, f.root)})

\* C25: after rm(path) succeeds, path resolves to nothing, no object that
\* was at or below it is reachable from the root, and every other object
\* that was found at its absolute path is still found there, for every
\* path and every cursor position.
C25_Removed ==
  [][last'.act = "rm" /\ last'.err = NoErr =>
       /\ find(fs', last'.line, fs'.root) = None
       /\ Below(fs, last'.line) \cap FromRoot(fs') = {}
       /\ \A x \in 1..Len(fs.nodes) \ Below(fs, last'.line) :
            AtOwnPath(fs, x) =>
              /\ AtOwnPath(fs', x)
              /\ get_absolute_path(fs'.nodes, x) = get_absolute_path(fs.nodes, x)
    ]_vars

\* the step routed a line `rm PATH`
RmRouted ==
  /\ last'.routed
  /\ last'.ran = "RmCommand"
  /\ Len(SplitWs(last'.line)) = 2

RmPath == SplitWs(last'.line)[2]

\* C26: routing `rm PATH`, where PATH names an existing node (from the root
\* when it starts with '/', from the cursor otherwise), raises nothing and
\* removes exactly that node: afterwards PATH names nothing, the node is not
\* reachable from the root, and every object that was reachable outside the
\* node's subtree still is.
C26_RmWholePath ==
  [][RmRouted /\ Resolve(fs, RmPath) # None =>
       /\ last'.err = NoErr
       /\ Resolve(fs', RmPath) = None
       /\ Resolve(fs, RmPath) \notin FromRoot(fs')
       /\ FromRoot(fs) \ Closure(fs.nodes, {Resolve(fs, RmPath)})
            \subseteq FromRoot(fs')]_vars

\* the step routed `head P`, `tac P`, `wc P` or `ls P` with a path P that
\* does not start with '/' and names, from the cursor, object x: a File for
\* head, tac and wc, a Directory for ls, found at its own absolute path
RelRouted(x) ==
  /\ last'.routed
  /\ last'.ran \in {"HeadCommand", "TacCommand", "WcCommand", "LsCommand"}
  /\ Len(SplitWs(last'.line)) = 2
  /\ ~StartsWith(SplitWs(last'.line)[2], "/")
  /\ SplitWs(last'.line)[2] # <<".">>
  /\ x = find(fs, SplitWs(last'.line)[2], fs.cwd)
  /\ IsDirectory(fs.nodes, x) <=> last'.ran = "LsCommand"
  /\ AtOwnPath(fs, x)

\* C27: head, tac, wc and ls resolve a path that does not start with '/'
\* against the current working directory: the line raises nothing and
\* prints what the same command prints for the absolute path of the object
\* that the path names from the cursor.
C27_RelativePaths ==
  [][\A x \in 1..Len(fs.nodes) : RelRouted(x) =>
       /\ last'.err = NoErr
       /\ out' = Echo \o Register_run(last'.ran, fs,
                            << get_absolute_path(fs.nodes, x) >>).outs]_vars

\* C28: Environment.set(name, value) is an upsert: for every name, stored
\* or not, and every stored value, the empty text included, set returns
\* and afterwards get(name) returns value.
C28_SetUpserts ==
  [][last'.act = "set" =>
       /\ last'.err = NoErr
       /\ env_get(env', last'.line) = [val |-> last'.file, err |-> NoErr]]_vars

\* the step routed a line whose first token starts with '$'
VarRouted == last'.routed /\ StartsWith(FirstToken(last'.line), "$")

VarName == Tail(FirstToken(last'.line))

C30_Startup ==
  [][last'.act = "parse_input" =>
       /\ last'.routed =>
            \E v \in VfsPaths \cup ScriptPaths \cup {NoFile},
               sp \in VfsPaths \cup ScriptPaths \cup {NoFile} :
              last'.line = ScLine(v, sp)
       /\ last'.err # NoErr => out' = << last'.err.text >>
       /\ pc'.at = "repl"]_vars

\* the implicit sc line of the two flags was routed and started its script
BatchStarted ==
  last.act = "parse_input" /\ last.ran = "ScCommand" /\ last.err = NoErr

\* C31: started with --vfs and --script, the application runs the script
\* and then exits without entering the interactive shell: once the script
\* of the two flags has been started, the InteractiveRunner never reads a
\* line.
C31_BatchThenExit ==
  [](BatchStarted => [](last.act \notin {"repl", "repl_interrupt"}))

\* the text of the File t
TheText == fs.nodes[find(fs, <<"t">>, fs.root)].content

\* the counts of a text t, read off its characters: one line more than it
\* has newlines, one word for every character that starts a run of
\* non-whitespace, its length, the longest run without a newline
NumLines(t) == 1 + Cardinality({i \in 1..Len(t) : t[i] = "\n"})

NumWords(t) ==
  Cardinality({i \in 1..Len(t) : t[i] \notin WS /\ (i = 1 \/ t[i - 1] \in WS)})

Longest(t) ==
  CHOOSE n \in 0..Len(t) :
    /\ \E i \in 1..(Len(t) - n + 1) : \A j \in i..(i + n - 1) : t[j] # "\n"
    /\ \A m \in (n + 1)..Len(t) :
         \A i \in 1..(Len(t) - m + 1) : \E j \in i..(i + m - 1) : t[j] = "\n"

\* a count followed by a blank if its flag is among the flags given
Count(flag, given, n) == IF flag \in given THEN ToStr(n) \o <<" ">> ELSE <<>>

\* the line wc is to print for the flags given
WcLine(given, t, name) ==
  IF given = {}
  THEN Words(<< ToStr(NumLines(t)), ToStr(NumWords(t)), ToStr(Len(t)), name >>)
  ELSE Count(<<"-", "w">>, given, NumWords(t))
       \o Count(<<"-", "I">>, given, NumLines(t))
       \o Count(<<"-", "m">>, given, Len(t))
       \o Count(<<"-", "L">>, given, Longest(t))
       \o name

\* the flags on a command line
FlagsOf(line) ==
  With(SplitWs(line), LAMBDA toks :
    {tok \in WcFlags : \E i \in 1..Len(toks) : toks[i] = tok})

\* C32: wc on a file with text t counts lines as the newline-split
\* segments (1 for the empty text), words as the whitespace-delimited
\* tokens, chars as the length and longest as the longest segment; without
\* a flag it prints `lines words chars name`, with flags the requested
\* counts in the order word, line, char, longest, whatever the order of
\* the flags on the command line.
C32_Wc ==
  [][last'.act = "wc" =>
       /\ last'.err = NoErr
       /\ out' = << WcLine(FlagsOf(last'.line), TheText, <<"t">>) >>]_vars

\* wc -L -I -w on the text "a \n" printed `1 2 2 t`
C32_Witness ==
  /\ last.act = "wc"
  /\ last.line = Words(<< <<"-", "L">>, <<"-", "I">>, <<"-", "w">>, <<"t">> >>)
  /\ TheText = <<"a", " ", "\n">>
  /\ out = << <<"1", " ", "2", " ", "2", " ", "t">> >>

\* the tokens of a head call and the count they ask for: the value that
\* follows -n, 10 without -n
HeadCount(line) ==
  With(SplitWs(line), LAMBDA toks :
    IF toks[1] = <<"-", "n">> THEN ToInt(toks[2]) ELSE 10)

\* the text up to the end of its m-th line: all of it if it has no more
\* than m lines, else what stands before its m-th newline
UpToLine(t, m) ==
  IF m >= NumLines(t) THEN t
  ELSE SubSeq(t, 1,
              (CHOOSE p \in 1..Len(t) :
                 /\ t[p] = "\n"
                 /\ Cardinality({i \in 1..(p - 1) : t[i] = "\n"}) = m - 1) - 1)

\* C33: head -n k on a file of N newline-separated lines prints the file's
\* name and then exactly the first min(k, N) lines in their order, k being
\* 10 when -n is not given; for k <= 0 it fails with a ValueError that
\* names k and prints nothing.
C33_Head ==
  [][last'.act = "head" =>
       IF HeadCount(last'.line) <= 0
       THEN /\ last'.err.cls = "ValueError"
            /\ last'.err.text = <<"Number have to be more than 0. Your n: ">>
                                \o IntStr(HeadCount(last'.line))
            /\ out' = <<>>
       ELSE /\ last'.err = NoErr
            /\ out' = << <<"t">>, UpToLine(TheText, HeadCount(last'.line)) >>]_vars

\* head without -n on the file of twelve lines printed its first ten
C33_Witness ==
  /\ last.act = "head"
  /\ last.line = <<"t">>
  /\ TheText = LongText
  /\ out = << <<"t">>,
              <<"0", "\n", "1", "\n", "2", "\n", "3", "\n", "4", "\n", "5",
                "\n", "6", "\n", "7", "\n", "8", "\n", "9">> >>

RECURSIVE TreeOf(_, _, _)
\* the tree below an object, by the objects' own names: kind, name,
\* content and the trees of the children in their order
TreeOf(nodes, id, fuel) ==
  [kind |-> nodes[id].kind, name |-> nodes[id].name,
   content |-> nodes[id].content,
   kids |-> IF fuel = 0 THEN <<>>
            ELSE [i \in 1..Len(nodes[id].children) |->
                    TreeOf(nodes, nodes[id].children[i].id, fuel - 1)]]

\* C34: the FileSystem built from the export of a FileSystem holds the
\* same Directories and Files under the same names, nested the same way,
\* with the same contents.
C34_RoundTrip ==
  [][last'.act = "roundtrip" /\ last'.err = NoErr =>
       /\ fs'.id # fs.id
       /\ TreeOf(fs'.nodes, fs'.root, Len(fs.nodes))
            = TreeOf(fs.nodes, fs.root, Len(fs.nodes))]_vars

\* a FileSystem rebuilt from the export of one that held a new Directory
\* /n and the File /h/f with a written text of four characters
C34_Witness ==
  /\ last.act = "roundtrip"
  /\ last.err = NoErr
  /\ fs.id > 1
  /\ find(fs, <<"/", "n">>, fs.root) # None
  /\ find(fs, <<"/", "h", "/", "f">>, fs.root) # None
  /\ fs.nodes[find(fs, <<"/", "h", "/", "f">>, fs.root)].content
       = <<"a", "\n", "b", " ">>

\* C35: the FileSystem of the terminal's registry is the terminal's
\* FileSystem, at the start and after any number of sc swaps, so a command
\* that Register.execute hands its registry's FileSystem (cd, ls, rm) and
\* a command that reads register.fs (head, tac, wc) act on the session's
\* current FileSystem.
C35_SharedFs ==
  /\ reg.fs = fs.id
  /\ \A i \in 1..Len(reg.commands) : classFs[reg.commands[i].type] = fs.id

\* a cd routed after two sc swaps, the registry and the terminal on the
\* third FileSystem
C35_Witness ==
  /\ fs.id = 3
  /\ reg.fs = 3
  /\ last.routed
  /\ last.ran = "CdCommand"
  /\ last.err = NoErr

\* the line a ScriptRunner is about to read, as the file holds it
RawLine == FileLines(Top.file)[Top.i]

\* C36: a script line that is blank or, its surrounding whitespace apart,
\* starts with `#` is neither echoed nor routed and changes nothing; every
\* other line is routed once, and the first thing printed for it is the
\* prompt followed by the line without its surrounding whitespace, the
\* prompt being that of the cursor before the line takes effect.
C36_ScriptEcho ==
  [][last'.act = "script" =>
       /\ last'.n = Top.i
       /\ stack'[Len(stack)].i = Top.i + 1
       /\ IF Strip(RawLine) = <<>> \/ Head(Strip(RawLine)) = "#"
          THEN /\ ~last'.routed
               /\ out' = <<>>
               /\ UNCHANGED Session
          ELSE /\ last'.routed
               /\ last'.line = Strip(RawLine)
               /\ out' # <<>>
               /\ out'[1] = <<"user@host">> \o <<":~">>
                            \o get_absolute_path(fs.nodes, fs.cwd) \o <<"$ ">>
                            \o Strip(RawLine)]_vars

\* the padded line ` cd d` of a script was echoed as `cd d` after the
\* prompt of /h and moved the cursor to /h/d
C36_Witness ==
  /\ last.act = "script"
  /\ last.routed
  /\ last.line = Words(<<t_cd, <<"d">> >>)
  /\ out = << <<"user@host">> \o <<":~">> \o <<"/", "h">> \o <<"$ ">>
              \o Words(<<t_cd, <<"d">> >>) >>
  /\ get_absolute_path(fs.nodes, fs.cwd) = <<"/", "h", "/", "d">>

(* C37: routing ls, head, tac, wc or a `$NAME` line, with the prompt asked  *)
(* for before it in a script, changes nothing of the session: the tree, the *)
(* files' contents, the cursor, the environment, the registry and the       *)
(* running flag are the same after the step, whether the command printed    *)
(* its result or raised.                                                    *)
Readers == {"LsCommand", "HeadCommand", "TacCommand", "WcCommand"}

C37_ReadersKeepSession ==
  [][(last'.ran \in Readers \/ VarRouted)
       => /\ fs' = fs /\ env' = env /\ reg' = reg /\ is_running' = is_running
          /\ classFs' = classFs
          /\ (last'.act = "script" =>
                out'[1] = get_prompt(fs') \o last'.line)]_vars

\* wc has printed the counts of a file with the cursor below the root
C37_Witness ==
  /\ last.routed /\ last.ran = "WcCommand" /\ last.err = NoErr
  /\ fs.cwd # fs.root
  /\ out # <<>>

(* C38: an sc line of a script starts the inner script as the innermost run *)
(* on a new filesystem and registry; while the inner run is active the      *)
(* outer run does not advance; the return of the inner run leaves the       *)
(* session as the inner run left it; and the session never goes back to an  *)
(* earlier filesystem or registry, so the outer script's remaining lines    *)
(* are routed against the ones the inner sc loaded (or later ones), each    *)
(* command acting on the session's filesystem of that moment.               *)
ScriptActs == {"script", "script_break", "script_end", "script_not_found"}

C38_NestedSc ==
  [][/\ (last'.act = "script" /\ Len(stack') > Len(stack))
          => /\ last'.ran = "ScCommand" /\ last'.err = NoErr
             /\ stack' = [stack EXCEPT ![Len(stack)].i = @ + 1]
                          \o << [file |-> SplitWs(last'.line)[5], i |-> 1] >>
             /\ nfs' = nfs + 1 /\ fs'.id = nfs' /\ reg'.id = nfs'
             /\ reg'.fs = fs'.id
             /\ fs'.cwd = fs'.root
     /\ (last'.act \in ScriptActs /\ stack # <<>>)
          => \A k \in 1..(Len(stack) - 1) : stack'[k] = stack[k]
     /\ (last'.act = "script" /\ Len(stack') = Len(stack))
          => /\ fs'.id = fs.id /\ reg' = reg
             /\ (last'.routed => \E e \in {process_line(last'.line)} :
                                    fs' = e.fs /\ is_running' = e.running)
     /\ Len(stack') < Len(stack) => UNCHANGED Session
     /\ fs'.id >= fs.id /\ reg'.id >= reg.id]_vars

\* the third line of s2, `cd d`, routed after the inner script of its second
\* line has ended: it has entered the directory d of the filesystem the
\* inner sc loaded, which the filesystem the outer script started on does
\* not have at its root
C38_Witness ==
  /\ last.act = "script" /\ last.file = S2 /\ last.n = 3 /\ last.routed
  /\ last.line = Words(<<t_cd, <<"d">> >>)
  /\ Len(out) = 1
  /\ fs.id > 1
  /\ get_absolute_path(fs.nodes, fs.cwd) = <<"/", "d">>

(* C39: after an exit routed from a script, whatever started the script,    *)
(* the session stays stopped: no runner routes or echoes a further line,    *)
(* every step is the break or return of a ScriptRunner.run or the end of    *)
(* the interactive loop, and the interactive loop neither prompts nor reads *)
(* a line again; it reads a line only while the session runs and no script  *)
(* run is active, so a startup script that exits leaves it no line to read. *)
ExitInScript ==
  last.act = "script" /\ last.routed /\ FirstToken(last.line) = s_exit

Prompted == last.act \in {"repl", "repl_interrupt"}

C39_ExitStopsAll ==
  /\ [](ExitInScript
         => [](/\ ~is_running
               /\ ~Prompted
               /\ (last.act = "script" => ExitInScript)))
  /\ [][/\ ~is_running
            => /\ ~last'.routed
               /\ out' = <<>>
               /\ last'.act \in {"script_break", "script_end",
                                 "script_not_found", "repl_exit"}
               /\ last'.act # "repl_exit" => stack' = Pop
               /\ UNCHANGED Session
        /\ Prompted' /\ last' # last => is_running /\ stack = <<>>]_vars

\* s2 ran s1 through its sc line, s1 exited, and the run of s2 has ended at
\* its third line without routing it; no run is left and the session of the
\* interactive loop is stopped
C39_Witness ==
  /\ last.act = "script_break" /\ last.file = S2 /\ last.n = 3
  /\ ~is_running
  /\ stack = <<>>
  /\ pc.at = "repl"
  /\ fs.id = 3

NoSelfCall ==
  \A i \in 1..Len(scripts[S2]) : scripts[S2][i] # ScLine(V1, S2)

\* the runs of scripts that do not invoke themselves return
C40_OtherRunsReturn ==
  \A d \in 1..MaxFs :
     [](NoSelfCall /\ Len(stack) >= d => <>(Len(stack) < d))

\* the first line of s2 has started s2 again, twice, and each run is at its
\* second line with the run it started still active
C40_SelfCall ==
  /\ Len(stack) = 3
  /\ \A k \in 1..3 : stack[k].file = S2
  /\ stack[1].i = 2 /\ stack[2].i = 2 /\ stack[3].i = 1
====
